---- MODULE Spec2Model ----
(***************************************************************************)
(* QuickBooksClient: the request execution pipeline (rate window, token    *)
(* validity and refresh, 429/401 retries) and the query / queryAll path.   *)
(* Times are in milliseconds unless a name says seconds.                   *)
(***************************************************************************)
EXTENDS Integers, Sequences, FiniteSets, TLC

\* ------------------------------------------------------------ constants
RATE_LIMIT == 500
RATE_LIMIT_WINDOW_MS == 60000
RATE_WAIT_BUFFER_MS == 100
MAX_RETRIES == 3
INITIAL_RETRY_DELAY_MS == 1000
TOKEN_BUFFER_SECONDS == 300
MAX_PAGE_SIZE == 1000

\* ------------------------------------------------------------ bounds
\* no new call starts once this many HTTP attempts have been made
AttemptBudget == 2
MaxCalls == 2
MaxTicks == 1
MaxRecords == 5
\* pages a queryAll is followed through when the server keeps sending full ones
MaxPages == 2
PageBudget == 4
\* calls made against the rate window, in bursts of RateBurst
MaxRateCalls == 1002
RateBurst == 250
\* calls made side by side once the window is full, and pauses while filling
BesideCalls == 3
FillPauses == 2
\* seconds left, at construction, to a stored token close to its expiry
BurstExpiry == 33

\* the clock when the client is constructed, and one step of idle time
StartClockMs == 1000000
TickMs == 1000
\* lifetime the provider gives a refreshed access token (expires_in, seconds)
ExpiresIn == 3600

\* ------------------------------------------------------------ values
NoStatus == -1
\* a status member that is there but is not a number (a string, say)
NotANumber == -2
NoCode == "none"
NoHeader == <<"absent">>
NaN == <<>>
Num(n) == <<n>>

\* the longest delay a timer of the runtime runs as asked (2^31 - 1 ms)
TIMEOUT_MAX == 2147483647
\* a number of milliseconds whose magnitude is above TIMEOUT_MAX
Beyond == <<TIMEOUT_MAX, 1>>
\* seconds * 1000
SecondsToMs(n) ==
  IF n > TIMEOUT_MAX \div 1000 \/ n < 0 - TIMEOUT_MAX \div 1000 THEN Beyond ELSE Num(n * 1000)

Min(a, b) == IF a < b THEN a ELSE b
Max(a, b) == IF a > b THEN a ELSE b

RECURSIVE Pow2(_)
Pow2(n) == IF n = 0 THEN 1 ELSE 2 * Pow2(n - 1)

\* String.prototype.includes over character sequences
Includes(s, pat) ==
  \E i \in 0..(Len(s) - Len(pat)) : SubSeq(s, i + 1, i + Len(pat)) = pat

Digits == {"0", "1", "2", "3", "4", "5", "6", "7", "8", "9"}
DigitVal(c) ==
  CASE c = "0" -> 0 [] c = "1" -> 1 [] c = "2" -> 2 [] c = "3" -> 3 [] c = "4" -> 4
    [] c = "5" -> 5 [] c = "6" -> 6 [] c = "7" -> 7 [] c = "8" -> 8 [] c = "9" -> 9

\* the characters parseInt skips before the number (StrWhiteSpaceChar): tab,
\* line feed, vertical tab, form feed, carriage return, space, no-break
\* space, the other space separators, line and paragraph separator, U+FEFF
\* (a character above U+00FF is written by its code point)
StrWhiteSpaceChar ==
  {"\t", "\n", "", "\f", "\r", " ", " ", "U+1680", "U+2000", "U+2001",
   "U+2002", "U+2003", "U+2004", "U+2005", "U+2006", "U+2007", "U+2008",
   "U+2009", "U+200A", "U+2028", "U+2029", "U+202F", "U+205F", "U+3000",
   "U+FEFF"}

RECURSIVE SkipSpaces(_)
SkipSpaces(s) ==
  IF s # <<>> /\ Head(s) \in StrWhiteSpaceChar THEN SkipSpaces(Tail(s)) ELSE s

RECURSIVE DigitPrefix(_)
DigitPrefix(s) ==
  IF s # <<>> /\ Head(s) \in Digits THEN <<Head(s)>> \o DigitPrefix(Tail(s)) ELSE <<>>

RECURSIVE DecimalValue(_)
DecimalValue(ds) ==
  IF ds = <<>> THEN 0
  ELSE 10 * DecimalValue(SubSeq(ds, 1, Len(ds) - 1)) + DigitVal(ds[Len(ds)])

\* parseInt(text, 10): leading white space, an optional sign, then the longest run
\* of decimal digits; NaN when there is none
ParseInt(text) ==
  LET s == SkipSpaces(text)
      neg == s # <<>> /\ Head(s) = "-"
      body == IF s # <<>> /\ Head(s) \in {"-", "+"} THEN Tail(s) ELSE s
      ds == DigitPrefix(body)
  IN IF ds = <<>> THEN NaN
     ELSE Num(IF neg THEN 0 - DecimalValue(ds) ELSE DecimalValue(ds))

\* ------------------------------------------------------------ errors.ts
QB_TOKEN_EXPIRED == "QB_TOKEN_EXPIRED"
QB_REFRESH_FAILED == "QB_REFRESH_FAILED"
QB_UNAUTHORIZED == "QB_UNAUTHORIZED"
QB_API_ERROR == "QB_API_ERROR"
QB_RATE_LIMIT == "QB_RATE_LIMIT"
QB_NETWORK_ERROR == "QB_NETWORK_ERROR"

MsgFetchFailed == <<"f", "e", "t", "c", "h", " ", "f", "a", "i", "l", "e", "d">>
MsgTokenExpired == <<"t", "o", "k", "e", "n", " ", "e", "x", "p", "i", "r", "e", "d">>
MsgInvalidToken == <<"i", "n", "v", "a", "l", "i", "d", "_", "t", "o", "k", "e", "n">>
MsgFetch == <<"f", "e", "t", "c", "h">>
MsgEndOfInput ==
  <<"U", "n", "e", "x", "p", "e", "c", "t", "e", "d", " ", "e", "n", "d",
    " ", "o", "f", " ", "J", "S", "O", "N", " ", "i", "n", "p", "u", "t">>
MsgUnexpectedToken ==
  <<"U", "n", "e", "x", "p", "e", "c", "t", "e", "d", " ", "t", "o", "k",
    "e", "n">>
MsgUnexpectedNumber ==
  <<"U", "n", "e", "x", "p", "e", "c", "t", "e", "d", " ", "n", "u", "m",
    "b", "e", "r", " ", "i", "n", " ", "J", "S", "O", "N", " ", "a", "t",
    " ", "p", "o", "s", "i", "t", "i", "o", "n", " ">>
MsgUnexpectedString ==
  <<"U", "n", "e", "x", "p", "e", "c", "t", "e", "d", " ", "s", "t", "r",
    "i", "n", "g", " ", "i", "n", " ", "J", "S", "O", "N", " ", "a", "t",
    " ", "p", "o", "s", "i", "t", "i", "o", "n", " ">>
MsgAfterJson ==
  <<"U", "n", "e", "x", "p", "e", "c", "t", "e", "d", " ", "n", "o", "n",
    "-", "w", "h", "i", "t", "e", "s", "p", "a", "c", "e", " ", "c", "h",
    "a", "r", "a", "c", "t", "e", "r", " ", "a", "f", "t", "e", "r", " ",
    "J", "S", "O", "N", " ", "a", "t", " ", "p", "o", "s", "i", "t", "i",
    "o", "n", " ">>
MsgNotValidJson ==
  <<" ", "i", "s", " ", "n", "o", "t", " ", "v", "a", "l", "i", "d", " ",
    "J", "S", "O", "N">>
TextHtml ==
  <<"<", "h", "t", "m", "l", ">", "n", "o", "t", " ", "j", "s", "o", "n",
    "<", "/", "h", "t", "m", "l", ">">>
TextNope == <<"n", "o", "p", "e">>
TextTrueInvalidToken ==
  <<"t", "r", "u", "e", " ", "i", "n", "v", "a", "l", "i", "d", "_", "t",
    "o", "k", "e", "n">>
TextFa1se == <<"f", "a", "1", "s", "e">>
TextNull == <<"n", "u", "l", "l">>

\* the literals of JSON
JsonLiterals ==
  {<<"t", "r", "u", "e">>, <<"f", "a", "l", "s", "e">>, <<"n", "u", "l", "l">>}
LiteralName(lit) ==
  IF Head(lit) = "t" THEN "true" ELSE IF Head(lit) = "f" THEN "false" ELSE "null"
LiteralNames == {"true", "false", "null"}

\* a non-negative number in decimal digits
RECURSIVE DecimalDigits(_)
DecimalDigits(n) ==
  LET DigitChar(d) == CHOOSE c \in Digits : DigitVal(c) = d
  IN IF n < 10 THEN <<DigitChar(n)>> ELSE DecimalDigits(n \div 10) \o <<DigitChar(n % 10)>>

RECURSIVE CommonPrefix(_, _)
CommonPrefix(a, b) ==
  IF a = <<>> \/ b = <<>> \/ Head(a) # Head(b) THEN 0
  ELSE 1 + CommonPrefix(Tail(a), Tail(b))

\* the number of characters before the first one at or after pos that is
\* not JSON white space (space, tab, line feed, carriage return)
RECURSIVE SkipWhitespace(_, _)
SkipWhitespace(text, pos) ==
  IF pos < Len(text) /\ text[pos + 1] \in {" ", "\t", "\n", "\r"}
    THEN SkipWhitespace(text, pos + 1) ELSE pos

\* JSON.parse on a text whose first character after white space opens no
\* number, string, array or object: the text is a literal (true, false,
\* null) between white space, or it is rejected at the first character that
\* does not fit.  token is what the offending character is reported as:
\* "number" for a digit or a minus sign, "string" for a double quote, "eos"
\* at the end of the text, "after" for a character that follows the
\* complete literal, "token" for any other
JsonScan(text) ==
  LET Scanned(ok, pos, token, literal) ==
        [ok |-> ok, pos |-> pos, token |-> token, literal |-> literal]
      TokenOf(ch) ==
        IF ch \in Digits \cup {"-"} THEN "number"
        ELSE IF ch = "\"" THEN "string" ELSE "token"
      start == SkipWhitespace(text, 0)
  IN
  IF start >= Len(text) THEN Scanned(FALSE, Len(text), "eos", "none")
  ELSE IF \E lit \in JsonLiterals : Head(lit) = text[start + 1]
    THEN LET lit == CHOOSE l \in JsonLiterals : Head(l) = text[start + 1]
             n == CommonPrefix(SubSeq(text, start + 1, Len(text)), lit)
             after == SkipWhitespace(text, start + n)
         IN IF n < Len(lit)
              THEN (IF start + n >= Len(text)
                      THEN Scanned(FALSE, Len(text), "eos", "none")
                      ELSE Scanned(FALSE, start + n, TokenOf(text[start + n + 1]), "none"))
            ELSE IF after >= Len(text) THEN Scanned(TRUE, Len(text), "none", LiteralName(lit))
            ELSE Scanned(FALSE, after, "after", "none")
  ELSE Scanned(FALSE, start, TokenOf(text[start + 1]), "none")

\* the number of characters read before the offending one
ErrorPosition(text) == JsonScan(text).pos

\* the message of the SyntaxError JSON.parse throws for a text JsonScan
\* rejects.  The texts undefined, Infinity and NaN are quoted whole without
\* an offending character; otherwise the message quotes the offending
\* character and then all of the text when it is shorter than 21
\* characters, or up to 10 characters on either side of the offending one
\* with an ellipsis where text is left out
SyntaxMessage(text) ==
  LET pos == ErrorPosition(text)
      token == JsonScan(text).token
      dots == <<".", ".", ".">>
      q == <<"\"">>
      n == Len(text)
      k == 10
      special == {<<"u", "n", "d", "e", "f", "i", "n", "e", "d">>,
                  <<"I", "n", "f", "i", "n", "i", "t", "y">>, <<"N", "a", "N">>}
      context ==
        IF n < 2 * k + 1 THEN q \o text \o q
        ELSE IF pos < k THEN q \o SubSeq(text, 1, pos + k) \o q \o dots
        ELSE IF pos < n - k
          THEN dots \o q \o SubSeq(text, pos - k + 1, pos + k) \o q \o dots
        ELSE dots \o q \o SubSeq(text, pos - k + 1, n) \o q
  IN IF token = "eos" THEN MsgEndOfInput
     ELSE IF token = "number" THEN MsgUnexpectedNumber \o DecimalDigits(pos)
     ELSE IF token = "string" THEN MsgUnexpectedString \o DecimalDigits(pos)
     ELSE IF token = "after" THEN MsgAfterJson \o DecimalDigits(pos)
     ELSE IF text \in special THEN q \o text \o q \o MsgNotValidJson
     ELSE MsgUnexpectedToken \o <<" ", "'", text[pos + 1], "'", ",", " ">>
            \o context \o MsgNotValidJson

\* A thrown value.  kind is its JavaScript class ("QuickBooksError",
\* "TypeError", "SyntaxError") or "object" for a plain object literal;
\* status is NoStatus when the value has no numeric status member.
Failure(kind, code, status, message, details) ==
  [kind |-> kind, code |-> code, status |-> status, message |-> message,
   details |-> details]

QuickBooksError(code, status, details) ==
  Failure("QuickBooksError", code, status, <<>>, details)

IsTagged(e) == e.kind = "QuickBooksError"

FetchTypeError == Failure("TypeError", NoCode, NoStatus, MsgFetchFailed, "TypeError")
\* Object.keys(data.QueryResponse) on a decoded body without that member,
\* and the read of a member (data.QueryResponse, response.CompanyInfo) of
\* the decoded body null
NoQueryResponseError ==
  Failure("TypeError", NoCode, NoStatus,
          <<"C", "a", "n", "n", "o", "t", " ", "c", "o", "n", "v", "e", "r", "t",
            " ", "u", "n", "d", "e", "f", "i", "n", "e", "d", " ", "o", "r", " ",
            "n", "u", "l", "l", " ", "t", "o", " ", "o", "b", "j", "e", "c", "t">>,
          "TypeError")
NullReadError(member) ==
  Failure("TypeError", NoCode, NoStatus,
          <<"C", "a", "n", "n", "o", "t", " ", "r", "e", "a", "d", " ", "p", "r",
            "o", "p", "e", "r", "t", "i", "e", "s", " ", "o", "f", " ", "n", "u",
            "l", "l", " ", "(", "r", "e", "a", "d", "i", "n", "g", " ", "'">>
            \o member \o <<"'", ")">>,
          "TypeError")
\* what response.json() rejects with for a body that is not JSON
JsonSyntaxError(body) ==
  Failure("SyntaxError", NoCode, NoStatus, SyntaxMessage(body.text), "SyntaxError")

\* typeof error === "object" && error !== null: everything thrown here but
\* a primitive string
IsObject(error) == error.kind # "string"

\* faulty variant: 403 left to the default
handleQuickBooksError_No403(error) ==
  IF error.kind = "QuickBooksError" THEN error
  ELSE IF error.kind = "TypeError" /\ Includes(error.message, MsgFetch)
    THEN QuickBooksError(QB_NETWORK_ERROR, 0, error.details)
  ELSE IF IsObject(error) /\ error.status = 401
    THEN QuickBooksError(QB_UNAUTHORIZED, 401, error.details)
  ELSE IF IsObject(error) /\ error.status = 429
    THEN QuickBooksError(QB_RATE_LIMIT, 429, error.details)
  ELSE IF IsObject(error)
            /\ (Includes(error.message, MsgTokenExpired)
                  \/ Includes(error.message, MsgInvalidToken))
    THEN QuickBooksError(QB_TOKEN_EXPIRED, 401, error.details)
  ELSE QuickBooksError(QB_API_ERROR, 500, error.details)

handleQuickBooksError(error) ==
  IF error.kind = "QuickBooksError" THEN error
  ELSE IF error.kind = "TypeError" /\ Includes(error.message, MsgFetch)
    THEN QuickBooksError(QB_NETWORK_ERROR, 0, error.details)
  ELSE IF IsObject(error) /\ error.status = 401
    THEN QuickBooksError(QB_UNAUTHORIZED, 401, error.details)
  ELSE IF IsObject(error) /\ error.status = 403
    THEN QuickBooksError(QB_UNAUTHORIZED, 403, error.details)
  ELSE IF IsObject(error) /\ error.status = 429
    THEN QuickBooksError(QB_RATE_LIMIT, 429, error.details)
  ELSE IF IsObject(error)
            /\ (Includes(error.message, MsgTokenExpired)
                  \/ Includes(error.message, MsgInvalidToken))
    THEN QuickBooksError(QB_TOKEN_EXPIRED, 401, error.details)
  ELSE QuickBooksError(QB_API_ERROR, 500, error.details)

\* { status: response.status, ...errorData }: a status member of the decoded
\* body, when there is one, replaces the response's, a number or not; a
\* decoded literal has no members to spread
SpreadStatus(status, errorData) ==
  Failure("object", NoCode,
          IF errorData.status # NoStatus THEN errorData.status ELSE status,
          errorData.message,
          IF errorData.payload \in LiteralNames THEN "empty" ELSE errorData.payload)

\* a response body: a JSON object with or without a numeric status member
\* and a message member, payload naming the member that carries its data;
\* or a text, which decodes to a literal or is not JSON
JsonBody(status, message, payload) ==
  [parses |-> TRUE, text |-> <<>>, status |-> status, message |-> message,
   payload |-> payload]
TextBody(text) ==
  [parses |-> JsonScan(text).ok, text |-> text, status |-> NoStatus, message |-> <<>>,
   payload |-> IF JsonScan(text).ok THEN JsonScan(text).literal ELSE "empty"]
\* {QueryResponse: ...} holding the page the server answers the query with,
\* the token endpoint's grant, {Fault: ...}
QueryBody == JsonBody(NoStatus, <<>>, "QueryResponse")
TokenBody == JsonBody(NoStatus, <<>>, "access_token")
FaultBody == JsonBody(NoStatus, <<>>, "Fault")
StatusBody(status) == JsonBody(status, <<>>, "status")
MessageBody(message) == JsonBody(NoStatus, message, "message")
GrantBody == JsonBody(NoStatus, <<>>, "invalid_grant")
HtmlBody == TextBody(TextHtml)
EmptyBody == TextBody(<<>>)

\* response.json().catch(() => ({})): an undecodable body is the empty
\* object, any other the decoded object with its members
EmptyObject == [status |-> NoStatus, message |-> <<>>, payload |-> "empty"]
DecodeErrorBody(body) ==
  IF ~body.parses THEN EmptyObject
  ELSE [status |-> body.status, message |-> body.message, payload |-> body.payload]

\* ------------------------------------------------------------ oauth.ts
NowSeconds(clockMs) == clockMs \div 1000

calculateTokenExpiry(expiresIn, clockMs) == NowSeconds(clockMs) + expiresIn

\* faulty variant: the boundary now = expiresAt - buffer counts as still valid
isTokenExpired_Strict(expiresAt, clockMs) ==
  NowSeconds(clockMs) > expiresAt - TOKEN_BUFFER_SECONDS

\* faulty variant: no buffer
isTokenExpired_NoBuffer(expiresAt, clockMs) == NowSeconds(clockMs) >= expiresAt

isTokenExpired(expiresAt, clockMs) ==
  NowSeconds(clockMs) >= expiresAt - TOKEN_BUFFER_SECONDS

Tokens(access, refresh, realm, expiresAt) ==
  [access_token |-> access, refresh_token |-> refresh, realm_id |-> realm,
   expires_at |-> expiresAt]

\* faulty variant: the realm is not the one passed in
refreshTokens_LostRealm(issued, realmId, expiresIn, clockMs) ==
  Tokens(issued, issued, "", calculateTokenExpiry(expiresIn, clockMs))

\* what refreshTokens returns on a 2xx answer carrying fresh token strings
\* `issued` and the lifetime expiresIn
refreshTokens(issued, realmId, expiresIn, clockMs) ==
  Tokens(issued, issued, realmId, calculateTokenExpiry(expiresIn, clockMs))

\* what refreshTokens throws on an answer that is not 2xx: the status of the
\* answer and, as details, its decoded body
RefreshFailed(status, errorData) ==
  QuickBooksError(QB_REFRESH_FAILED, status, errorData.payload)

\* faulty variant: an empty store taken for an expired token
NoTokensError_Expired == QuickBooksError(QB_TOKEN_EXPIRED, 401, "none")

\* what getValidTokens throws when the store holds nothing: no status, no details
NoTokensError == QuickBooksError(QB_UNAUTHORIZED, NoStatus, "none")

\* ------------------------------------------------------------ rate window
\* faulty variant: nothing is pruned
PruneTimestamps_Keep(ts, now) == ts

PruneTimestamps(ts, now) ==
  SelectSeq(ts, LAMBDA x : now - x < RATE_LIMIT_WINDOW_MS)

\* faulty variant: waits for the newest entry to age out of half the window
WaitTime_Half(ts, now) == RATE_LIMIT_WINDOW_MS \div 2 - (now - ts[1]) + RATE_WAIT_BUFFER_MS

\* faulty variant: the buffer taken off instead of added
WaitTime_Early(ts, now) == RATE_LIMIT_WINDOW_MS - (now - ts[1]) - RATE_WAIT_BUFFER_MS

WaitTime(ts, now) == RATE_LIMIT_WINDOW_MS - (now - ts[1]) + RATE_WAIT_BUFFER_MS

\* faulty variant: one entry too many let in
WindowFull_Above(ts) == Len(ts) > RATE_LIMIT

\* this.requestTimestamps.length >= RATE_LIMIT
WindowFull(ts) == Len(ts) >= RATE_LIMIT

\* a timer runs for the delay asked for; NaN, anything below 1 ms and
\* anything above TIMEOUT_MAX run 1 ms
TimerMs(d) ==
  IF d = NaN \/ d = Beyond \/ d[1] < 1 \/ d[1] > TIMEOUT_MAX THEN 1 ELSE d[1]

\* ------------------------------------------------------------ retry policy

\* faulty variant: two retries too many
ShouldRetry429_TwoMore(status, retryCount) == status = 429 /\ retryCount < MAX_RETRIES + 2

\* response.status === 429 && retryCount < MAX_RETRIES
ShouldRetry429(status, retryCount) == status = 429 /\ retryCount < MAX_RETRIES

\* response.status === 401 && retryCount < 1
ShouldRefresh401(status, retryCount) == status = 401 /\ retryCount < 1

\* faulty variant: the wrong status
ShouldClearTokens_403(error) == IsTagged(error) /\ error.status = 403

\* faulty variant: any failed refresh clears
ShouldClearTokens_Always(error) == TRUE

\* faulty variant: any failure the token endpoint answered clears
ShouldClearTokens_AnyStatus(error) == IsTagged(error)

\* error instanceof QuickBooksError && error.status === 401
ShouldClearTokens(error) == IsTagged(error) /\ error.status = 401

BackoffDelay(retryCount) == INITIAL_RETRY_DELAY_MS * Pow2(retryCount)

\* retryAfter ? parseInt(retryAfter, 10) * 1000 : backoff; the empty string
\* and an absent header are both falsy
RetryDelay(retryAfter, retryCount) ==
  IF retryAfter # NoHeader /\ retryAfter # <<>>
    THEN (IF ParseInt(retryAfter) = NaN THEN NaN ELSE SecondsToMs(ParseInt(retryAfter)[1]))
    ELSE Num(BackoffDelay(retryCount))

\* ------------------------------------------------------------ query envelope
MetadataKeys == {"startPosition", "maxResults", "totalCount"}

\* faulty variant: the first key, metadata or not
UnwrapEnvelope_FirstKey(env) == IF env = <<>> THEN <<>> ELSE env[1].value

\* Object.keys(QueryResponse).filter(not metadata)[0], then its array; an
\* envelope is the sequence of its members in Object.keys order, and the
\* empty key is falsy like a missing one
UnwrapEnvelope(env) ==
  LET keys == SelectSeq(env, LAMBDA m : m.key \notin MetadataKeys)
  IN IF keys = <<>> \/ keys[1].key = "" THEN <<>> ELSE keys[1].value

\* faulty variant: the page size is sent as asked
capPageSize_None(pageSize) == pageSize

capPageSize(pageSize) == Min(pageSize, MAX_PAGE_SIZE)

\* faulty variant: a full page taken for the last one
IsLastPage_OrFull(pageLength, maxResults) == pageLength <= maxResults

\* pageResults.length < maxResults
IsLastPage(pageLength, maxResults) == pageLength < maxResults

\* startPosition += maxResults
NextStartPosition(startPosition, maxResults) == startPosition + maxResults

\* ------------------------------------------------------------ environment
Tasks == {"a", "b"}
\* the caller of a client whose calls are made one at a time
Callers == {"a"}
Realm == "realm-1"
OtherRealm == "realm-2"

Headers ==
  {NoHeader, <<>>, <<"0">>, <<"2">>, <<"\t", "2">>, <<"W", "e", "d">>,
   <<"2", "1", "4", "7", "4", "8", "4">>}
\* bodies of 2xx answers and of error answers
Bodies ==
  {QueryBody, FaultBody, HtmlBody, EmptyBody, TextBody(MsgInvalidToken),
   TextBody(TextTrueInvalidToken), TextBody(TextFa1se), TextBody(TextNull)}
ErrorBodies == {FaultBody, HtmlBody, StatusBody(429), MessageBody(MsgTokenExpired)}

HttpResponse(status, retryAfter, body) ==
  [kind |-> "http", status |-> status, retryAfter |-> retryAfter, body |-> body]
TransportFailure ==
  [kind |-> "transport", status |-> NoStatus, retryAfter |-> NoHeader, body |-> EmptyBody]

Responses ==
  {HttpResponse(200, NoHeader, b) : b \in Bodies}
    \cup {HttpResponse(s, NoHeader, b) : s \in {401, 404, 500}, b \in ErrorBodies}
    \cup {HttpResponse(429, h, FaultBody) : h \in Headers}
    \cup {HttpResponse(429, NoHeader, StatusBody(403)),
          HttpResponse(403, NoHeader, StatusBody(NotANumber))}
    \cup {TransportFailure}

\* the answers to an attempt made with the given retry counter: the rarer
\* forms of Retry-After and of a 2xx body come with the first answer only
LaterHeaders == {NoHeader, <<"2">>, <<"2", "1", "4", "7", "4", "8", "4">>}
LaterBodies == {QueryBody, HtmlBody, EmptyBody, TextBody(MsgInvalidToken)}
ResponsesAt(retryCount) ==
  IF retryCount = 0 THEN Responses
  ELSE {r \in Responses :
          /\ r.status = 429 => r.retryAfter \in LaterHeaders
          /\ r.status = 200 => r.body \in LaterBodies}

RefreshAnswer(kind, status, body) == [kind |-> kind, status |-> status, body |-> body]
RefreshOk == RefreshAnswer("ok", 200, TokenBody)
RefreshAnswers ==
  {RefreshOk, RefreshAnswer("transport", NoStatus, EmptyBody)}
    \cup {RefreshAnswer("http", s, b) : s \in {400, 401}, b \in {GrantBody, HtmlBody}}
    \cup {RefreshAnswer("http", s, GrantBody) : s \in {403, 500}}

\* the page the server holds for STARTPOSITION s MAXRESULTS m of n records
ServerPage(n, s, m) ==
  IF s > n \/ m < 1 THEN <<>> ELSE [i \in 1..(Min(s + m - 1, n) - s + 1) |-> s + i - 1]

ServerEnvelope(page, s) ==
  IF page = <<>> THEN <<>>
  ELSE << [key |-> "Invoice", value |-> page],
          [key |-> "startPosition", value |-> <<s>>],
          [key |-> "maxResults", value |-> <<Len(page)>>] >>

\* the QueryResponse objects a server may answer a query with
Meta(key, n) == [key |-> key, value |-> <<n>>]
Entity(key, rows) == [key |-> key, value |-> rows]
Rows == {<<>>, <<1>>, <<1, 2>>}
Envelopes ==
  {<<>>, <<Meta("startPosition", 1), Meta("maxResults", 10), Meta("totalCount", 0)>>}
    \cup {<<Entity("Invoice", r), Meta("startPosition", 1), Meta("maxResults", Len(r))>> :
            r \in Rows}
    \cup {<<Meta("startPosition", 1), Meta("maxResults", Len(r)), Entity("Invoice", r)>> :
            r \in Rows}
    \cup {<<Meta("totalCount", Len(r)), Entity("Customer", r), Entity("Invoice", q)>> :
            r \in Rows, q \in Rows}
    \cup {<<Entity("", r), Entity("Invoice", <<1>>)>> : r \in Rows}

\* the public operations that return a member of what request() resolves
\* to, each with the member it reads
ResponseMember ==
  [getInvoice |-> <<"I", "n", "v", "o", "i", "c", "e">>,
   createInvoice |-> <<"I", "n", "v", "o", "i", "c", "e">>,
   updateInvoice |-> <<"I", "n", "v", "o", "i", "c", "e">>,
   getCustomer |-> <<"C", "u", "s", "t", "o", "m", "e", "r">>,
   createCustomer |-> <<"C", "u", "s", "t", "o", "m", "e", "r">>,
   updateCustomer |-> <<"C", "u", "s", "t", "o", "m", "e", "r">>,
   getPayment |-> <<"P", "a", "y", "m", "e", "n", "t">>,
   createPayment |-> <<"P", "a", "y", "m", "e", "n", "t">>,
   getAccount |-> <<"A", "c", "c", "o", "u", "n", "t">>,
   getVendor |-> <<"V", "e", "n", "d", "o", "r">>,
   createVendor |-> <<"V", "e", "n", "d", "o", "r">>,
   updateVendor |-> <<"V", "e", "n", "d", "o", "r">>,
   getBill |-> <<"B", "i", "l", "l">>,
   createBill |-> <<"B", "i", "l", "l">>,
   updateBill |-> <<"B", "i", "l", "l">>,
   getItem |-> <<"I", "t", "e", "m">>,
   createItem |-> <<"I", "t", "e", "m">>,
   updateItem |-> <<"I", "t", "e", "m">>,
   getCompanyInfo |-> <<"C", "o", "m", "p", "a", "n", "y", "I", "n", "f", "o">>]

\* the operations that end in request(): "request" is request() run for a
\* caller that does not read what it resolves to, as deleteInvoice() does
RequestOps == {"request"} \cup DOMAIN ResponseMember
\* the operations the callers choose from
Ops == {"request", "query", "queryAll", "getCompanyInfo", "getInvoice"}
PageSizes == {1, 2, MAX_PAGE_SIZE, MAX_PAGE_SIZE + 1}

\* ------------------------------------------------------------ state
VARIABLES
  clock,              \* Date.now()
  requestTimestamps,  \* the client's rate window
  store,              \* the token store: <<>> or <<tokens>>
  issuedTokens,       \* how many token pairs the token endpoint has issued
  dataset,            \* how many records the server holds
  call,               \* per task: the call it is in
  recorded,           \* history: every timestamp the rate check recorded
  calls, attempts, ticks,
  client,             \* the options given to the constructor and what it made of them
  probe,              \* a raw failure and what handleQuickBooksError returns for it
  rejected            \* history: refresh tokens the token endpoint answered with 401

vars == <<clock, requestTimestamps, store, issuedTokens, dataset, call, recorded,
          calls, attempts, ticks, client, probe, rejected>>

NoError == Failure("none", NoCode, NoStatus, <<>>, "none")

IdleCall ==
  [pc |-> "idle", op |-> "none", retryCount |-> 0, tokens |-> <<>>, delay |-> NaN,
   \* what tokenStore.getTokens() returned to the pending await
   read |-> <<>>,
   \* what refreshTokens() returned, while the store is asked to keep it
   newTokens |-> <<>>,
   startPosition |-> 1, maxResults |-> 0, allResults |-> <<>>,
   outcome |-> "none", error |-> NoError,
   \* history of this logical call
   resps |-> <<>>, refreshes |-> <<>>, positions |-> <<>>,
   writes |-> 0, clears |-> 0, endedBy |-> "none",
   \* the stages passed, in order: "rate", "tokens", "fetch"
   trail |-> <<>>,
   \* the QueryResponse of the last 2xx answer to a query
   envelope |-> <<>>,
   \* and the rows taken out of it
   pageResults |-> <<>>,
   \* the pageSize argument of queryAll
   pageSize |-> 0,
   \* when the timer of a suspended rate check fires, and the waits so far
   wakeAt |-> 0, waits |-> <<>>]

\* ------------------------------------------------------------ construction
QB_INVALID_CONFIG == "QB_INVALID_CONFIG"

\* a member of the options object: <<>> when it is missing, else <<value>>
Missing == <<>>
\* !options.member: a missing member and the empty string are both falsy
Falsy(member) == member = Missing \/ member = <<"">>

Options(clientId, clientSecret, redirectUri, tokenStore) ==
  [clientId |-> clientId, clientSecret |-> clientSecret,
   redirectUri |-> redirectUri, tokenStore |-> tokenStore]

ConfigError(member) ==
  Failure("QuickBooksError", QB_INVALID_CONFIG, NoStatus, <<member, " is required">>, "none")

\* faulty variant: the token store is not asked for
validateConfig_NoStore(options) ==
  IF Falsy(options.clientId) THEN ConfigError("clientId")
  ELSE IF Falsy(options.clientSecret) THEN ConfigError("clientSecret")
  ELSE IF Falsy(options.redirectUri) THEN ConfigError("redirectUri")
  ELSE NoError

\* validateConfig: the error it throws, NoError when it returns
validateConfig(options) ==
  IF Falsy(options.clientId) THEN ConfigError("clientId")
  ELSE IF Falsy(options.clientSecret) THEN ConfigError("clientSecret")
  ELSE IF Falsy(options.redirectUri) THEN ConfigError("redirectUri")
  ELSE IF Falsy(options.tokenStore) THEN ConfigError("tokenStore")
  ELSE NoError

StringMembers == {Missing, <<"">>, <<"set">>}
StoreMembers == {Missing, <<"store">>}
OptionSets ==
  {Options(i, s, r, ts) : i \in StringMembers, s \in StringMembers,
                          r \in StringMembers, ts \in StoreMembers}

\* new QuickBooksClient(options) before, and after, the constructor has run
NewClient(options) == [state |-> "new", options |-> options, error |-> NoError]
ReadyClient ==
  [state |-> "ready", options |-> Options(<<"set">>, <<"set">>, <<"set">>, <<"store">>),
   error |-> NoError]

NoProbe == [raw |-> NoError, normalized |-> NoError, applied |-> FALSE]

InitStores ==
  {<<>>} \cup
  {<<Tokens(0, 0, Realm, NowSeconds(StartClockMs) + d)>> :
     d \in {TOKEN_BUFFER_SECONDS - 1, TOKEN_BUFFER_SECONDS, TOKEN_BUFFER_SECONDS + 1}}
  \cup {<<Tokens(0, 0, OtherRealm, NowSeconds(StartClockMs) + TOKEN_BUFFER_SECONDS - 1)>>}

Init ==
  /\ clock = StartClockMs
  /\ requestTimestamps = <<>>
  /\ store \in InitStores
  /\ issuedTokens = 0
  /\ dataset = MaxRecords
  /\ call = [t \in Tasks |-> IdleCall]
  /\ recorded = <<>>
  /\ calls = 0
  /\ attempts = 0
  /\ ticks = 0
  /\ client = ReadyClient
  /\ probe = NoProbe
  /\ rejected = {}

\* ------------------------------------------------------------ steps
Set(t, c) == call' = [call EXCEPT ![t] = c]

\* the call ends by throwing e to its caller
Throw(c, e, by) == [c EXCEPT !.pc = "done", !.outcome = "error", !.error = e, !.endedBy = by]

\* where request() and query()/queryAll() go after each stage: request()
\* checks the rate first and then gets tokens, the query path the reverse
AfterRate(op) == IF op \in RequestOps THEN "tokens" ELSE "fetch"
AfterTokens(op) == IF op \in RequestOps THEN "fetch" ELSE "rate"
\* getCompanyInfo() gets tokens itself before it calls request()
TokensDone(c) ==
  IF c.op = "getCompanyInfo" /\ c.trail = <<>> THEN "rate" ELSE AfterTokens(c.op)
\* faulty variant: every operation starts by getting tokens
FirstStage_Tokens(op) == "tokens"

FirstStage(op) ==
  IF op \in RequestOps /\ op # "getCompanyInfo" THEN "rate" ELSE "tokens"

\* task t enters an operation of the client
Enter(t, op, pageSize) ==
  /\ client.state = "ready"
  /\ call[t].pc = "idle"
  /\ Set(t, [IdleCall EXCEPT !.pc = FirstStage(op), !.op = op,
                             !.pageSize = pageSize,
                             !.maxResults = capPageSize(pageSize)])
  /\ calls' = calls + 1
  /\ UNCHANGED <<clock, requestTimestamps, store, issuedTokens, dataset, recorded,
                 attempts, ticks, client, probe, rejected>>

\* the same while no other call is in flight
Begin(t, op, pageSize) ==
  /\ \A u \in Tasks : call[u].pc = "idle"
  /\ Enter(t, op, pageSize)

\* a caller invokes an operation; calls are made one at a time
Start(t, op, pageSize) ==
  /\ calls < MaxCalls /\ attempts < AttemptBudget
  /\ op # "queryAll" => pageSize = MAX_PAGE_SIZE
  /\ Begin(t, op, pageSize)

\* the caller takes the result
Return(t) ==
  /\ call[t].pc = "done"
  /\ Set(t, IdleCall)
  /\ UNCHANGED <<clock, requestTimestamps, store, issuedTokens, dataset, recorded,
                 calls, attempts, ticks, client, probe, rejected>>

\* a call suspended on a timer, and the rule that timers fire in the order
\* of their due times
TimerPending(c) == c.pc \in {"waiting", "backoff"}
FiresFirst(t) == \A u \in Tasks : TimerPending(call[u]) => call[u].wakeAt >= call[t].wakeAt

\* checkRateLimit() up to its suspension: prune; start the timer when the
\* window is full, record the timestamp otherwise
checkRateLimit(t) ==
  LET c == call[t]
      now == clock
      kept == PruneTimestamps(requestTimestamps, now)
      waitTime == WaitTime(kept, now)
  IN /\ c.pc = "rate"
     /\ IF WindowFull(kept)
          THEN /\ requestTimestamps' = kept
               /\ recorded' = recorded
               /\ Set(t, [c EXCEPT !.pc = "waiting",
                                   !.wakeAt = now + TimerMs(Num(waitTime)),
                                   !.waits = Append(@, [at |-> now, oldest |-> kept[1],
                                                        length |-> Len(kept),
                                                        waitTime |-> waitTime])])
          ELSE /\ requestTimestamps' = Append(kept, now)
               /\ recorded' = Append(recorded, now)
               /\ Set(t, [c EXCEPT !.pc = AfterRate(c.op), !.trail = Append(@, "rate")])
     /\ UNCHANGED <<clock, store, issuedTokens, dataset, calls, attempts, ticks,
                    client, probe, rejected>>

\* the timer of a suspended rate check fires: the timestamp is recorded
\* with no second look at the window
checkRateLimitResumed(t) ==
  LET c == call[t]
      now == Max(clock, c.wakeAt)
  IN /\ c.pc = "waiting"
     /\ FiresFirst(t)
     /\ clock' = now
     /\ requestTimestamps' = Append(requestTimestamps, now)
     /\ recorded' = Append(recorded, now)
     /\ Set(t, [c EXCEPT !.pc = AfterRate(c.op), !.trail = Append(@, "rate")])
     /\ UNCHANGED <<store, issuedTokens, dataset, calls, attempts, ticks,
                    client, probe, rejected>>

\* the refresh tokens the token endpoint has answered with 401 so far
Rejected(set, ans, refreshToken) ==
  IF ans.kind = "http" /\ ans.status = 401 THEN set \cup {refreshToken} ELSE set

RefreshEntry(forced, ans, expiresAt, now) ==
  [forced |-> forced, kind |-> ans.kind, status |-> ans.status, body |-> ans.body,
   expires_at |-> expiresAt, now |-> now]

\* await this.tokenStore.getTokens(), in getValidTokens() and in the 401
\* branch of request(): the store reads what it holds; the caller goes on in
\* a later step
getTokens(t) ==
  LET c == call[t] IN
  /\ c.pc \in {"tokens", "reread"}
  /\ Set(t, [c EXCEPT !.pc = IF c.pc = "tokens" THEN "held" ELSE "reheld",
                      !.read = store])
  /\ UNCHANGED <<clock, requestTimestamps, store, issuedTokens, dataset, recorded,
                 calls, attempts, ticks, client, probe, rejected>>

\* getValidTokens() from the return of getTokens() to its next suspension:
\* no tokens, or the expiry test against the clock as it is now
getValidTokens(t) ==
  LET c0 == call[t]
      c == [c0 EXCEPT !.read = <<>>]
  IN
  /\ c0.pc = "held"
  /\ IF c0.read = <<>>
       THEN Set(t, Throw(c, NoTokensError, "tokens"))
       ELSE IF isTokenExpired(c0.read[1].expires_at, clock)
         THEN Set(t, [c EXCEPT !.pc = "refresh", !.tokens = c0.read])
         ELSE Set(t, [c EXCEPT !.pc = TokensDone(c), !.tokens = c0.read,
                               !.trail = Append(@, "tokens")])
  /\ UNCHANGED <<clock, requestTimestamps, store, issuedTokens, dataset, recorded,
                 calls, attempts, ticks, client, probe, rejected>>

\* the token endpoint answers the refresh getValidTokens() started:
\* getValidTokens() goes on to its await of storeTokens() or, when the
\* failure has status 401, of clearTokens(), and throws any other failure
refreshAnswered(t, ans) ==
  LET c0 == call[t]
      c == [c0 EXCEPT !.refreshes =
              Append(@, RefreshEntry(FALSE, ans, c0.tokens[1].expires_at, NowSeconds(clock)))]
      new == refreshTokens(issuedTokens + 1, c.tokens[1].realm_id, ExpiresIn, clock)
      failure == IF ans.kind = "transport" THEN FetchTypeError
                 ELSE RefreshFailed(ans.status, DecodeErrorBody(ans.body))
  IN /\ c0.pc = "refresh"
     /\ IF ans.kind = "ok"
          THEN /\ issuedTokens' = issuedTokens + 1
               /\ Set(t, [c EXCEPT !.pc = "store", !.newTokens = <<new>>])
          ELSE /\ UNCHANGED issuedTokens
               /\ IF ShouldClearTokens(failure)
                    THEN Set(t, [c EXCEPT !.pc = "clear", !.error = failure])
                    ELSE Set(t, Throw(c, failure, "tokens"))
     /\ rejected' = Rejected(rejected, ans, c0.tokens[1].refresh_token)
     /\ UNCHANGED <<clock, requestTimestamps, store, dataset, recorded, calls, attempts,
                    ticks, client, probe>>

\* await this.tokenStore.storeTokens(newTokens), in getValidTokens() and in
\* the 401 branch of request(): the store keeps the new record and the
\* caller goes on, getValidTokens() to return it, request() to call itself
\* with retryCount + 1
storeTokens(t) ==
  LET c0 == call[t]
      c == [c0 EXCEPT !.newTokens = <<>>, !.writes = @ + 1]
  IN /\ c0.pc \in {"store", "restore"}
     /\ store' = c0.newTokens
     /\ IF c0.pc = "store"
          THEN Set(t, [c EXCEPT !.pc = TokensDone(c), !.tokens = c0.newTokens,
                               !.trail = Append(@, "tokens")])
          ELSE Set(t, [c EXCEPT !.pc = "rate", !.retryCount = @ + 1])
     /\ UNCHANGED <<clock, requestTimestamps, issuedTokens, dataset, recorded, calls,
                    attempts, ticks, client, probe, rejected>>

\* await this.tokenStore.clearTokens() in the catch of getValidTokens(): the
\* store drops what it holds and the failure of the refresh is thrown
clearTokens(t) ==
  LET c == call[t] IN
  /\ c.pc = "clear"
  /\ store' = <<>>
  /\ Set(t, [Throw(c, c.error, "tokens") EXCEPT !.clears = @ + 1])
  /\ UNCHANGED <<clock, requestTimestamps, issuedTokens, dataset, recorded, calls,
                 attempts, ticks, client, probe, rejected>>

\* one physical attempt, as the history keeps it; forced tells that the
\* answer took request() into its 401 branch
Attempt(c, resp, retried, forced, delay) ==
  [status |-> resp.status, retryAfter |-> resp.retryAfter, body |-> resp.body,
   at |-> clock,
   retryCount |-> c.retryCount, bearer |-> c.tokens[1],
   retried |-> retried, forced |-> forced, delay |-> delay]

Logged(c, resp, retried, forced, delay) ==
  [c EXCEPT !.resps = Append(@, Attempt(c, resp, retried, forced, delay)),
            !.trail = Append(@, "fetch")]

\* request(): the resource API answers the attempt; when request() resolves,
\* the operation that ran it reads its member of the answer
requestAnswered(t, resp) ==
  LET c == call[t]
      delay == RetryDelay(resp.retryAfter, c.retryCount)
  IN
  /\ c.pc = "fetch" /\ c.op \in RequestOps
  /\ IF resp.kind = "transport"
       THEN Set(t, Throw(Logged(c, resp, FALSE, FALSE, NaN),
                         handleQuickBooksError(FetchTypeError), "transport"))
     ELSE IF ShouldRetry429(resp.status, c.retryCount)
       THEN Set(t, [Logged(c, resp, TRUE, FALSE, delay)
                      EXCEPT !.pc = "backoff", !.delay = delay,
                             !.wakeAt = clock + TimerMs(delay)])
     ELSE IF ShouldRefresh401(resp.status, c.retryCount)
       THEN Set(t, [Logged(c, resp, FALSE, TRUE, NaN) EXCEPT !.pc = "reread"])
     ELSE IF resp.status \notin 200..299
       THEN Set(t, Throw(Logged(c, resp, FALSE, FALSE, NaN),
                         handleQuickBooksError(
                           SpreadStatus(resp.status, DecodeErrorBody(resp.body))),
                         "response"))
     ELSE IF ~resp.body.parses
       THEN Set(t, Throw(Logged(c, resp, FALSE, FALSE, NaN),
                         handleQuickBooksError(JsonSyntaxError(resp.body)), "response"))
     ELSE IF c.op \in DOMAIN ResponseMember /\ resp.body.payload = "null"
       THEN Set(t, Throw(Logged(c, resp, FALSE, FALSE, NaN),
                         NullReadError(ResponseMember[c.op]), "response"))
     ELSE Set(t, [Logged(c, resp, FALSE, FALSE, NaN)
                    EXCEPT !.pc = "done", !.outcome = "ok", !.endedBy = "response"])
  /\ attempts' = attempts + 1
  /\ UNCHANGED <<clock, requestTimestamps, store, issuedTokens, dataset, recorded,
                 calls, ticks, client, probe, rejected>>

\* request() after the store has answered the getTokens() of its 401 branch:
\* with tokens it starts the refresh, without it goes on to the throw of a
\* non-2xx answer
refreshOn401(t) ==
  LET c0 == call[t]
      c == [c0 EXCEPT !.read = <<>>]
      resp == c0.resps[Len(c0.resps)]
  IN
  /\ c0.pc = "reheld"
  /\ IF c0.read # <<>>
       THEN Set(t, [c EXCEPT !.pc = "forced", !.tokens = c0.read])
       ELSE Set(t, Throw(c, handleQuickBooksError(
                              SpreadStatus(resp.status, DecodeErrorBody(resp.body))),
                         "response"))
  /\ UNCHANGED <<clock, requestTimestamps, store, issuedTokens, dataset, recorded,
                 calls, attempts, ticks, client, probe, rejected>>

\* the 429 delay has run: request() calls itself with retryCount + 1
backoffElapsed(t) ==
  LET c == call[t] IN
  /\ c.pc = "backoff"
  /\ FiresFirst(t)
  /\ clock' = Max(clock, c.wakeAt)
  /\ Set(t, [c EXCEPT !.pc = "rate", !.retryCount = @ + 1, !.delay = NaN])
  /\ UNCHANGED <<requestTimestamps, store, issuedTokens, dataset, recorded,
                 calls, attempts, ticks, client, probe, rejected>>

\* the token endpoint answers the refresh request() started on a 401:
\* request() goes on to its await of storeTokens(); a failure goes through
\* the catch of request() and nowhere else
forcedRefreshAnswered(t, ans) ==
  LET c0 == call[t]
      c == [c0 EXCEPT !.refreshes =
              Append(@, RefreshEntry(TRUE, ans, c0.tokens[1].expires_at, NowSeconds(clock)))]
      new == refreshTokens(issuedTokens + 1, c.tokens[1].realm_id, ExpiresIn, clock)
      failure == IF ans.kind = "transport" THEN FetchTypeError
                 ELSE RefreshFailed(ans.status, DecodeErrorBody(ans.body))
  IN /\ c0.pc = "forced"
     /\ IF ans.kind = "ok"
          THEN /\ issuedTokens' = issuedTokens + 1
               /\ Set(t, [c EXCEPT !.pc = "restore", !.newTokens = <<new>>])
          ELSE /\ Set(t, Throw(c, handleQuickBooksError(failure), "forced"))
               /\ UNCHANGED issuedTokens
     /\ rejected' = Rejected(rejected, ans, c0.tokens[1].refresh_token)
     /\ UNCHANGED <<clock, requestTimestamps, store, dataset, recorded, calls, attempts,
                    ticks, client, probe>>

\* query() and queryAll() once the body of a 2xx answer is decoded: unwrap
\* the envelope; query() returns the rows, queryAll() collects them and
\* goes on to the next page unless this one was short
PageTaken(c0, env) ==
  LET pageResults == UnwrapEnvelope(env)
      c == [c0 EXCEPT !.envelope = env, !.pageResults = pageResults]
  IN IF c.op = "queryAll" /\ ~IsLastPage(Len(pageResults), c.maxResults)
       THEN [c EXCEPT !.pc = "tokens",
                      !.allResults = @ \o pageResults,
                      !.startPosition = NextStartPosition(@, c.maxResults)]
       ELSE [c EXCEPT !.pc = "done", !.outcome = "ok", !.endedBy = "response",
                      !.allResults = @ \o pageResults]

\* query() and one iteration of queryAll(): the resource API answers
queryAnswered(t, resp) ==
  LET c0 == call[t]
      c == [Logged(c0, resp, FALSE, FALSE, NaN)
              EXCEPT !.positions = Append(@, c0.startPosition)]
      page == IF c.op = "queryAll"
                THEN ServerPage(dataset, c.startPosition, c.maxResults)
                ELSE ServerPage(dataset, 1, dataset)
  IN /\ c0.pc = "fetch" /\ c0.op \in {"query", "queryAll"}
     /\ IF resp.kind = "transport"
          THEN Set(t, Throw(c, FetchTypeError, "transport"))
        ELSE IF resp.status \notin 200..299
          THEN Set(t, Throw(c, handleQuickBooksError(
                                  SpreadStatus(resp.status, DecodeErrorBody(resp.body))),
                            "response"))
        ELSE IF ~resp.body.parses
          THEN Set(t, Throw(c, JsonSyntaxError(resp.body), "response"))
        ELSE IF resp.body.payload = "null"
          THEN Set(t, Throw(c, NullReadError(<<"Q", "u", "e", "r", "y", "R", "e", "s",
                                                "p", "o", "n", "s", "e">>),
                            "response"))
        ELSE IF resp.body.payload # "QueryResponse"
          THEN Set(t, Throw(c, NoQueryResponseError, "response"))
        ELSE Set(t, PageTaken(c, ServerEnvelope(page, c.startPosition)))
     /\ attempts' = attempts + 1
     /\ UNCHANGED <<clock, requestTimestamps, store, issuedTokens, dataset, recorded,
                    calls, ticks, client, probe, rejected>>

\* time passes between calls
Tick ==
  /\ ticks < MaxTicks
  /\ \A u \in Tasks : call[u].pc = "idle"
  /\ clock' = clock + TickMs
  /\ ticks' = ticks + 1
  /\ UNCHANGED <<requestTimestamps, store, issuedTokens, dataset, call, recorded,
                 calls, attempts, client, probe, rejected>>

Next ==
  \/ \E t \in Callers, op \in Ops, ps \in PageSizes : Start(t, op, ps)
  \/ \E t \in Callers : Return(t)
  \/ \E t \in Callers : checkRateLimit(t)
  \/ \E t \in Callers : getTokens(t)
  \/ \E t \in Callers : getValidTokens(t)
  \/ \E t \in Callers, ans \in RefreshAnswers : refreshAnswered(t, ans)
  \/ \E t \in Callers : storeTokens(t)
  \/ \E t \in Callers : clearTokens(t)
  \/ \E t \in Callers : \E resp \in ResponsesAt(call[t].retryCount) : requestAnswered(t, resp)
  \/ \E t \in Callers : backoffElapsed(t)
  \/ \E t \in Callers : refreshOn401(t)
  \/ \E t \in Callers, ans \in RefreshAnswers : forcedRefreshAnswered(t, ans)
  \/ \E t \in Callers, resp \in Responses : queryAnswered(t, resp)
  \/ Tick

Spec == Init /\ [][Next]_vars

\* ------------------------------------------------------------ pagination
\* queryAll() against servers holding 0..MaxRecords records
InitPages ==
  /\ clock = StartClockMs
  /\ requestTimestamps = <<>>
  /\ store \in InitStores
  /\ issuedTokens = 0
  /\ dataset \in 0..MaxRecords
  /\ call = [t \in Tasks |-> IdleCall]
  /\ recorded = <<>>
  /\ calls = 0
  /\ attempts = 0
  /\ ticks = 0
  /\ client = ReadyClient
  /\ probe = NoProbe
  /\ rejected = {}

StartQueryAll(t, pageSize) ==
  /\ calls < MaxCalls /\ attempts < AttemptBudget
  /\ Begin(t, "queryAll", pageSize)

NextPages ==
  \/ \E t \in Callers, ps \in PageSizes : StartQueryAll(t, ps)
  \/ \E t \in Callers : Return(t)
  \/ \E t \in Callers : checkRateLimit(t)
  \/ \E t \in Callers : getTokens(t)
  \/ \E t \in Callers : getValidTokens(t)
  \/ \E t \in Callers, ans \in RefreshAnswers : refreshAnswered(t, ans)
  \/ \E t \in Callers : storeTokens(t)
  \/ \E t \in Callers : clearTokens(t)
  \/ \E t \in Callers, resp \in Responses : queryAnswered(t, resp)
  \/ Tick

SpecPages == InitPages /\ [][NextPages]_vars

\* ------------------------------------------------------------ queries
\* a host constructs a client from some options object; when that succeeds
\* it runs queries, each answered 2xx with some QueryResponse
InitQuery ==
  /\ clock = StartClockMs
  /\ requestTimestamps = <<>>
  /\ store = <<Tokens(0, 0, Realm, NowSeconds(StartClockMs) + ExpiresIn)>>
  /\ issuedTokens = 0
  /\ dataset = MaxRecords
  /\ call = [t \in Tasks |-> IdleCall]
  /\ recorded = <<>>
  /\ calls = 0
  /\ attempts = 0
  /\ ticks = 0
  /\ client \in {NewClient(o) : o \in OptionSets}
  /\ probe = NoProbe
  /\ rejected = {}

\* constructor: validateConfig, then keep the options
constructor ==
  /\ client.state = "new"
  /\ client' = IF validateConfig(client.options) = NoError
                 THEN [client EXCEPT !.state = "ready"]
                 ELSE [client EXCEPT !.state = "failed",
                                     !.error = validateConfig(client.options)]
  /\ UNCHANGED <<clock, requestTimestamps, store, issuedTokens, dataset, call, recorded,
                 calls, attempts, ticks, probe, rejected>>

StartQuery(t, op, pageSize) ==
  /\ calls < MaxCalls
  /\ op \in {"query", "queryAll"}
  /\ op # "queryAll" => pageSize = MAX_PAGE_SIZE
  /\ Begin(t, op, pageSize)

\* the resource API answers a query 2xx with the body {QueryResponse: env}
envelopeAnswered(t, env) ==
  LET c0 == call[t]
      c == [Logged(c0, HttpResponse(200, NoHeader, QueryBody), FALSE, FALSE, NaN)
              EXCEPT !.positions = Append(@, c0.startPosition)]
  IN /\ c0.pc = "fetch" /\ c0.op \in {"query", "queryAll"}
     /\ Len(c0.positions) < MaxPages
     /\ Set(t, PageTaken(c, env))
     /\ attempts' = attempts + 1
     /\ UNCHANGED <<clock, requestTimestamps, store, issuedTokens, dataset, recorded,
                    calls, ticks, client, probe, rejected>>

NextQuery ==
  \/ constructor
  \/ \E t \in Callers, op \in Ops, ps \in PageSizes : StartQuery(t, op, ps)
  \/ \E t \in Callers : Return(t)
  \/ \E t \in Callers : checkRateLimit(t)
  \/ \E t \in Callers : getTokens(t)
  \/ \E t \in Callers : getValidTokens(t)
  \/ \E t \in Callers, env \in Envelopes : envelopeAnswered(t, env)

SpecQuery == InitQuery /\ [][NextQuery]_vars

\* ------------------------------------------------------------ error normalisation
\* handleQuickBooksError applied to one raw failure
RawKinds == {"TypeError", "SyntaxError", "object", "string"}
RawStatuses == {NoStatus, NotANumber, 400, 401, 403, 404, 429, 500, 503}
RawMessages ==
  {<<>>, MsgFetchFailed, MsgTokenExpired, MsgInvalidToken, MsgEndOfInput,
   SyntaxMessage(TextHtml), SyntaxMessage(TextNope), SyntaxMessage(MsgInvalidToken),
   SyntaxMessage(TextTrueInvalidToken), SyntaxMessage(TextFa1se),
   MsgFetch \o <<":", " ">> \o MsgInvalidToken}
TaggedCodes == {QB_REFRESH_FAILED, QB_UNAUTHORIZED, QB_INVALID_CONFIG}

\* a primitive string has neither a status nor a message member
RawErrors ==
  {Failure(k, NoCode, IF k = "string" THEN NoStatus ELSE st, m, "raw") :
     k \in RawKinds, st \in RawStatuses, m \in RawMessages}
    \cup {QuickBooksError(code, st, "raw") : code \in TaggedCodes, st \in RawStatuses}

InitErrors ==
  /\ clock = StartClockMs
  /\ requestTimestamps = <<>>
  /\ store = <<>>
  /\ issuedTokens = 0
  /\ dataset = MaxRecords
  /\ call = [t \in Tasks |-> IdleCall]
  /\ recorded = <<>>
  /\ calls = 0
  /\ attempts = 0
  /\ ticks = 0
  /\ client = ReadyClient
  /\ probe \in {[NoProbe EXCEPT !.raw = r] : r \in RawErrors}
  /\ rejected = {}

normalise ==
  /\ ~probe.applied
  /\ probe' = [probe EXCEPT !.normalized = handleQuickBooksError(probe.raw),
                            !.applied = TRUE]
  /\ UNCHANGED <<clock, requestTimestamps, store, issuedTokens, dataset, call, recorded,
                 calls, attempts, ticks, client, rejected>>

NextErrors == normalise

SpecErrors == InitErrors /\ [][NextErrors]_vars

\* ------------------------------------------------------------ rate window
\* a caller makes requests one at a time, in bursts of RateBurst with an
\* optional pause after each burst; every request is answered 200
Pauses == {RATE_LIMIT_WINDOW_MS \div 2, RATE_LIMIT_WINDOW_MS - RATE_WAIT_BUFFER_MS}

InitRate ==
  /\ clock = StartClockMs
  /\ requestTimestamps = <<>>
  /\ store = <<Tokens(0, 0, Realm, NowSeconds(StartClockMs) + ExpiresIn)>>
  /\ issuedTokens = 0
  /\ dataset = MaxRecords
  /\ call = [t \in Tasks |-> IdleCall]
  /\ recorded = <<>>
  /\ calls = 0
  /\ attempts = 0
  /\ ticks = 0
  /\ client = ReadyClient
  /\ probe = NoProbe
  /\ rejected = {}

StartBurstCall(t) ==
  /\ calls < MaxRateCalls
  /\ Begin(t, "request", MAX_PAGE_SIZE)

Pause(d) ==
  /\ \A u \in Tasks : call[u].pc = "idle"
  /\ calls > 0 /\ calls % RateBurst = 0
  /\ ticks < calls \div RateBurst
  /\ clock' = clock + d
  /\ ticks' = calls \div RateBurst
  /\ UNCHANGED <<requestTimestamps, store, issuedTokens, dataset, call, recorded,
                 calls, attempts, client, probe, rejected>>

NextRate ==
  \/ \E t \in Callers : StartBurstCall(t)
  \/ \E t \in Callers : checkRateLimit(t)
  \/ \E t \in Callers : checkRateLimitResumed(t)
  \/ \E t \in Callers : getTokens(t)
  \/ \E t \in Callers : getValidTokens(t)
  \/ \E t \in Callers : requestAnswered(t, HttpResponse(200, NoHeader, FaultBody))
  \/ \E t \in Callers : Return(t)
  \/ \E d \in Pauses : Pause(d)

SpecRate == InitRate /\ [][NextRate]_vars

\* ------------------------------------------------------------ page size
\* queryAll() with page sizes around the cap, and below 1, against datasets
\* around one and two full pages; every page is answered 2xx
CapDatasets ==
  {0, MAX_PAGE_SIZE - 1, MAX_PAGE_SIZE, MAX_PAGE_SIZE + 1, 2 * MAX_PAGE_SIZE}
CapPageSizes ==
  {0 - 1, 0, MAX_PAGE_SIZE - 1, MAX_PAGE_SIZE, MAX_PAGE_SIZE + 1, 2 * MAX_PAGE_SIZE}

InitCap ==
  /\ clock = StartClockMs
  /\ requestTimestamps = <<>>
  /\ store = <<Tokens(0, 0, Realm, NowSeconds(StartClockMs) + ExpiresIn)>>
  /\ issuedTokens = 0
  /\ dataset \in CapDatasets
  /\ call = [t \in Tasks |-> IdleCall]
  /\ recorded = <<>>
  /\ calls = 0
  /\ attempts = 0
  /\ ticks = 0
  /\ client = ReadyClient
  /\ probe = NoProbe
  /\ rejected = {}

StartCapped(t, pageSize) ==
  /\ calls < MaxCalls
  /\ Begin(t, "queryAll", pageSize)

\* the server answers a page; a queryAll is followed for PageBudget pages
pageAnswered(t) ==
  /\ Len(call[t].positions) < PageBudget
  /\ queryAnswered(t, HttpResponse(200, NoHeader, QueryBody))

NextCap ==
  \/ \E t \in Callers, ps \in CapPageSizes : StartCapped(t, ps)
  \/ \E t \in Callers : Return(t)
  \/ \E t \in Callers : checkRateLimit(t)
  \/ \E t \in Callers : getTokens(t)
  \/ \E t \in Callers : getValidTokens(t)
  \/ \E t \in Callers : pageAnswered(t)

SpecCap == InitCap /\ [][NextCap]_vars

\* ------------------------------------------------------------ concurrent bursts
\* one caller fills the rate window with requests made one at a time, with
\* a pause after the first and after the second if it likes; then two tasks
\* make calls side by side
BurstStores ==
  {<<Tokens(0, 0, Realm, NowSeconds(StartClockMs) + d)>> : d \in {BurstExpiry, ExpiresIn}}

InitBurst ==
  /\ clock = StartClockMs
  /\ requestTimestamps = <<>>
  /\ store \in BurstStores
  /\ issuedTokens = 0
  /\ dataset = MaxRecords
  /\ call = [t \in Tasks |-> IdleCall]
  /\ recorded = <<>>
  /\ calls = 0
  /\ attempts = 0
  /\ ticks = 0
  /\ client = ReadyClient
  /\ probe = NoProbe
  /\ rejected = {}

StartFill(t) ==
  /\ calls < RATE_LIMIT
  /\ Begin(t, "request", MAX_PAGE_SIZE)

PauseFill ==
  /\ \A u \in Tasks : call[u].pc = "idle"
  /\ calls \in 1..FillPauses
  /\ ticks < calls
  /\ clock' = clock + TickMs
  /\ ticks' = calls
  /\ UNCHANGED <<requestTimestamps, store, issuedTokens, dataset, call, recorded,
                 calls, attempts, client, probe, rejected>>

StartBeside(t, op) ==
  /\ calls >= RATE_LIMIT
  /\ calls < RATE_LIMIT + BesideCalls
  /\ op \in {"request", "query"}
  /\ Enter(t, op, MAX_PAGE_SIZE)

NextBurst ==
  \/ \E t \in Callers : StartFill(t)
  \/ PauseFill
  \/ \E t \in Tasks, op \in Ops : StartBeside(t, op)
  \/ \E t \in Tasks : Return(t)
  \/ \E t \in Tasks : checkRateLimit(t)
  \/ \E t \in Tasks : checkRateLimitResumed(t)
  \/ \E t \in Tasks : getTokens(t)
  \/ \E t \in Tasks : getValidTokens(t)
  \/ \E t \in Tasks : refreshAnswered(t, RefreshOk)
  \/ \E t \in Tasks : storeTokens(t)
  \/ \E t \in Tasks : requestAnswered(t, HttpResponse(200, NoHeader, FaultBody))
  \/ \E t \in Tasks : queryAnswered(t, HttpResponse(200, NoHeader, QueryBody))

SpecBurst == InitBurst /\ [][NextBurst]_vars

\* ------------------------------------------------------------ claims
Done(c) == c.pc = "done"

\* every attempt of the call so far was answered 429 without a Retry-After
All429NoHeader(c) ==
  \A i \in 1..Len(c.resps) :
    c.resps[i].status = 429 /\ c.resps[i].retryAfter = NoHeader

\* the time between attempt i and the next one
Gap(c, i) == c.resps[i + 1].at - c.resps[i].at

\* C1: a request() whose every attempt is answered 429 with no Retry-After
\* waits 1000, 2000 and 4000 ms before its 1st, 2nd and 3rd retry, and the
\* 4th 429 is not retried: it surfaces QB_RATE_LIMIT with status 429 after
\* exactly 4 attempts (a call cut short because credentials could not be had
\* makes no further attempt).
C1_BackoffLadder ==
  \A t \in Tasks :
    LET c == call[t] IN
    (c.op \in RequestOps /\ All429NoHeader(c)) =>
      /\ Len(c.resps) <= 4
      /\ \A i \in 1..Len(c.resps) :
           /\ i <= 3 => c.resps[i].retried /\ c.resps[i].delay = Num(1000 * Pow2(i - 1))
           /\ i < Len(c.resps) => Gap(c, i) = 1000 * Pow2(i - 1)
           /\ i = 4 => ~c.resps[i].retried
      /\ (Done(c) /\ c.endedBy = "response") =>
           /\ Len(c.resps) = 4
           /\ c.outcome = "error"
           /\ c.error.kind = "QuickBooksError"
           /\ c.error.code = QB_RATE_LIMIT
           /\ c.error.status = 429
      /\ Len(c.resps) = 4 => Done(c) /\ c.endedBy = "response"

\* a Retry-After value that is a number of seconds in decimal digits
IsSecondsHint(h) == h # NoHeader /\ h # <<>> /\ \A i \in 1..Len(h) : h[i] \in Digits

\* C2: a 429 with a Retry-After hint of s seconds, answered while retries
\* remain, is retried after a delay of exactly s * 1000 ms whatever the retry
\* count, and one retry follows that delay.
C2_RetryAfterHint ==
  \A t \in Tasks :
    LET c == call[t] IN
    c.op \in RequestOps =>
      \A i \in 1..Len(c.resps) :
        LET r == c.resps[i]
            s == DecimalValue(r.retryAfter)
        IN (r.status = 429 /\ IsSecondsHint(r.retryAfter) /\ r.retryCount < MAX_RETRIES) =>
             /\ r.retried
             /\ r.delay = SecondsToMs(s)
             /\ ~(i = Len(c.resps) /\ Done(c) /\ c.endedBy = "response")
             /\ i < Len(c.resps) =>
                  /\ Gap(c, i) \div 1000 >= s
                  /\ s >= 1 => (Gap(c, i) \div 1000 = s /\ Gap(c, i) % 1000 = 0)
                  /\ c.resps[i + 1].retryCount = r.retryCount + 1

\* the position of the first 401 among the answers of the call, 0 if none
First401(c) ==
  IF \E i \in 1..Len(c.resps) : c.resps[i].status = 401
    THEN CHOOSE i \in 1..Len(c.resps) :
           /\ c.resps[i].status = 401
           /\ \A j \in 1..(i - 1) : c.resps[j].status # 401
    ELSE 0

\* C3 as stated: the first 401 of a request() triggers a refresh.
C3_First401Refreshes ==
  \A t \in Tasks :
    LET c == call[t] IN
    (c.op \in RequestOps /\ First401(c) > 0) => c.resps[First401(c)].forced

Retried429Before(c, i) == Cardinality({j \in 1..(i - 1) : c.resps[j].retried})
ForcedBefore(c, i) == Cardinality({j \in 1..(i - 1) : c.resps[j].forced})

\* C4 as stated: the two ladders are independent.  A 401 is refreshed and
\* retried whenever the call has not used its 401 retry, and a 429 is retried
\* whenever the call has made fewer than 3 retries for 429.
C4_IndependentLadders ==
  \A t \in Tasks :
    LET c == call[t] IN
    c.op \in RequestOps =>
      \A i \in 1..Len(c.resps) :
        /\ (c.resps[i].status = 401 /\ ForcedBefore(c, i) = 0) => c.resps[i].forced
        /\ (c.resps[i].status = 429 /\ Retried429Before(c, i) < MAX_RETRIES) =>
             c.resps[i].retried

\* getValidTokens() has just read a stored credential and decided
TokensDecided(t) ==
  call[t].pc = "held" /\ call[t].read # <<>> /\ store # <<>> /\ call'[t].pc # "held"

RefreshStarted(t) == call'[t].pc = "refresh" /\ store' = store

UsedAsStored(t) ==
  /\ call'[t].pc = TokensDone(call[t])
  /\ call'[t].tokens = store
  /\ store' = store
  /\ issuedTokens' = issuedTokens
  /\ call'[t].refreshes = call[t].refreshes

\* C5 as stated: getValidTokens refreshes whenever expires_at < now + 300 and
\* returns the stored credential, with no token endpoint call and no store
\* write, whenever expires_at >= now + 300.
C5_RefreshBelowBuffer ==
  [][\A t \in Tasks :
       TokensDecided(t) =>
         LET exp == store[1].expires_at
             now == NowSeconds(clock)
         IN /\ exp < now + 300 => RefreshStarted(t)
            /\ exp >= now + 300 => UsedAsStored(t)]_vars

\* C5, amended: getValidTokens refreshes whenever expires_at <= now + 300
\* (the boundary included) and returns the stored credential, with no token
\* endpoint call and no store write, whenever expires_at > now + 300.
C5_RefreshWithinBuffer ==
  [][\A t \in Tasks :
       TokensDecided(t) =>
         LET exp == store[1].expires_at
             now == NowSeconds(clock)
         IN /\ exp <= now + 300 => RefreshStarted(t)
            /\ exp > now + 300 => UsedAsStored(t)]_vars

\* a refresh under way for a credential that expires in exactly 300 s
C5_Witness ==
  \E t \in Tasks :
    /\ call[t].pc = "refresh"
    /\ store # <<>>
    /\ store[1].expires_at = NowSeconds(clock) + 300

\* C6: when the refresh getValidTokens started fails with status 401, the
\* store is cleared exactly once and the caller of the operation gets that
\* RefreshFailed error itself: the call does nothing more than wait for
\* clearTokens(), not yet called a second time, and end.
C6_Expiry401ClearsOnce ==
  \A t \in Tasks :
    LET c == call[t] IN
    \A i \in 1..Len(c.refreshes) :
      (~c.refreshes[i].forced /\ c.refreshes[i].kind = "http" /\ c.refreshes[i].status = 401) =>
        /\ i = Len(c.refreshes)
        /\ c.pc \in {"clear", "done"}
        /\ c.pc = "clear" => c.clears = 0 /\ c.outcome = "none"
        /\ Done(c) =>
             /\ c.clears = 1
             /\ store = <<>>
             /\ c.outcome = "error"
        /\ c.error = RefreshFailed(401, DecodeErrorBody(c.refreshes[i].body))

C6_Witness ==
  \E t \in Tasks :
    LET c == call[t] IN
    /\ c.op = "query" /\ Done(c) /\ Len(c.refreshes) = 1
    /\ ~c.refreshes[1].forced /\ c.refreshes[1].status = 401
    /\ c.clears = 1 /\ store = <<>>
    /\ c.error.code = QB_REFRESH_FAILED

\* C7: every refresh that fails with status 401, the refresh request() forces
\* on a 401 answer included, has cleared the store when the failure reaches
\* the caller.
C7_Every401RefreshClears ==
  \A t \in Tasks :
    LET c == call[t] IN
    \A i \in 1..Len(c.refreshes) :
      (Done(c) /\ c.refreshes[i].kind = "http" /\ c.refreshes[i].status = 401) =>
        /\ c.clears >= 1
        /\ store = <<>>

\* C10: query() and every page of queryAll() take the retry path of
\* request(): a 429 answer is retried while fewer than 3 retries were made
\* and a first 401 answer forces a refresh and a reissue.
C10_QueryPathRetries ==
  \A t \in Tasks :
    LET c == call[t] IN
    c.op \in {"query", "queryAll"} =>
      \A i \in 1..Len(c.resps) :
        /\ (c.resps[i].status = 429 /\ Retried429Before(c, i) < MAX_RETRIES) =>
             c.resps[i].retried
        /\ (c.resps[i].status = 401 /\ ForcedBefore(c, i) = 0) => c.resps[i].forced

\* C8: for calls made one at a time, no request is recorded with fewer than
\* 60 000 ms less the buffer elapsed since the request 500 positions earlier,
\* and at most 500 recorded requests lie in any trailing 60 000 ms window.
C8_SlidingWindow ==
  LET n == Len(recorded) IN
  /\ n > RATE_LIMIT =>
       recorded[n] - recorded[n - RATE_LIMIT] >= RATE_LIMIT_WINDOW_MS - RATE_WAIT_BUFFER_MS
  /\ n > 0 =>
       Cardinality({j \in 1..n : recorded[n] - recorded[j] < RATE_LIMIT_WINDOW_MS})
         <= RATE_LIMIT

\* a request held back by a full window, recorded as soon as the rate check let it go
C8_Witness ==
  LET n == Len(recorded) IN
  /\ n > RATE_LIMIT
  /\ recorded[n] - recorded[n - RATE_LIMIT] = RATE_LIMIT_WINDOW_MS + RATE_WAIT_BUFFER_MS
  /\ recorded[n] - recorded[n - 1] > 0
  /\ recorded[n - 1] - recorded[n - RATE_LIMIT] > 0

\* C9: against a server holding n records, queryAll with effective page size
\* p >= 1 queries start positions 1, 1 + p, 1 + 2p, ..., makes n \div p + 1
\* queries, the last one answered by the first page shorter than p, and
\* returns the n records once each in server order.
C9_Pagination ==
  \A t \in Tasks :
    LET c == call[t]
        p == c.maxResults
    IN c.op = "queryAll" =>
         /\ p >= 1
         /\ Len(c.positions) <= dataset \div p + 1
         /\ \A i \in 1..Len(c.positions) : c.positions[i] = 1 + (i - 1) * p
         /\ (Done(c) /\ c.outcome = "ok") =>
              /\ Len(c.positions) = dataset \div p + 1
              /\ c.allResults = [i \in 1..dataset |-> i]

C9_Witness ==
  \E t \in Tasks :
    LET c == call[t] IN
    /\ c.op = "queryAll" /\ Done(c) /\ c.outcome = "ok"
    /\ dataset = 5 /\ c.maxResults = 2
    /\ c.positions = <<1, 3, 5>>
    /\ c.allResults = <<1, 2, 3, 4, 5>>

\* the members of an envelope that are not metadata, by position
EntityPositions(env) == {i \in 1..Len(env) : env[i].key \notin MetadataKeys}
FirstEntity(env) ==
  CHOOSE i \in EntityPositions(env) : \A j \in EntityPositions(env) : i <= j

\* a query answered 2xx with a body that holds a QueryResponse
Unwrapped(c) ==
  /\ c.op \in {"query", "queryAll"} /\ Len(c.resps) > 0
  /\ c.resps[Len(c.resps)].status \in 200..299
  /\ c.resps[Len(c.resps)].body = QueryBody

\* C11 as stated: from a 2xx answer whose body holds a QueryResponse,
\* query() and queryAll() take the array stored under the first member of
\* QueryResponse that is not startPosition, maxResults or totalCount,
\* whatever its name, and take the empty sequence, without failing, when
\* QueryResponse has metadata members only; query() returns exactly that.
C11_FirstEntityArray ==
  \A t \in Tasks :
    LET c == call[t]
        env == c.envelope
    IN Unwrapped(c) =>
         /\ c.outcome # "error"
         /\ EntityPositions(env) = {} => c.pageResults = <<>>
         /\ EntityPositions(env) # {} => c.pageResults = env[FirstEntity(env)].value
         /\ c.op = "query" =>
              Done(c) /\ c.outcome = "ok" /\ c.allResults = c.pageResults

\* C11, amended: the array under the first member that is not metadata is
\* taken when the name of that member is not the empty string; when it is
\* the empty string, or when QueryResponse has metadata members only, the
\* empty sequence is taken, without failing, whatever members follow;
\* query() returns exactly that.
C11_EnvelopeUnwrapping ==
  \A t \in Tasks :
    LET c == call[t]
        env == c.envelope
    IN Unwrapped(c) =>
         /\ c.outcome # "error"
         /\ EntityPositions(env) = {} => c.pageResults = <<>>
         /\ (EntityPositions(env) # {} /\ env[FirstEntity(env)].key # "") =>
              c.pageResults = env[FirstEntity(env)].value
         /\ (EntityPositions(env) # {} /\ env[FirstEntity(env)].key = "") =>
              c.pageResults = <<>>
         /\ c.op = "query" =>
              Done(c) /\ c.outcome = "ok" /\ c.allResults = c.pageResults

\* a query answered with two rows under the empty name, ahead of Invoice,
\* has returned no rows; another, answered with metadata first and two rows
\* under Invoice, would return those
C11_Witness ==
  \E t \in Tasks :
    LET c == call[t] IN
    /\ c.op = "query" /\ Done(c) /\ c.outcome = "ok"
    /\ c.envelope = <<Entity("", <<1, 2>>), Entity("Invoice", <<1>>)>>
    /\ c.allResults = <<>>
    /\ UnwrapEnvelope(<<Meta("startPosition", 1), Meta("maxResults", 2),
                         Entity("Invoice", <<1, 2>>)>>) = <<1, 2>>

\* a member of the options object is missing
SomeMissing(o) ==
  o.clientId = Missing \/ o.clientSecret = Missing \/ o.redirectUri = Missing
    \/ o.tokenStore = Missing

AllGiven(o) == \A m \in {o.clientId, o.clientSecret, o.redirectUri, o.tokenStore} : ~Falsy(m)

\* the client has touched neither the token store nor the network
Untouched ==
  /\ calls = 0 /\ attempts = 0 /\ issuedTokens = 0
  /\ requestTimestamps = <<>> /\ recorded = <<>>
  /\ store = <<Tokens(0, 0, Realm, NowSeconds(StartClockMs) + ExpiresIn)>>
  /\ \A t \in Tasks : call[t] = IdleCall

\* C12: once the constructor has run on an options object with clientId,
\* clientSecret, redirectUri or tokenStore missing, it has failed with a
\* tagged QB_INVALID_CONFIG error, the token store and the network were not
\* touched, and no operation ever runs on that client; with all four given
\* the client is ready.
C12_ConstructorValidates ==
  /\ (client.state # "new" /\ SomeMissing(client.options)) =>
       /\ client.state = "failed"
       /\ IsTagged(client.error) /\ client.error.code = QB_INVALID_CONFIG
       /\ Untouched
  /\ (client.state # "new" /\ AllGiven(client.options)) =>
       client.state = "ready" /\ client.error = NoError
  /\ client.state # "ready" => Untouched

\* only the token store is missing, and the constructor has refused
C12_Witness ==
  /\ client.state = "failed"
  /\ client.options = Options(<<"set">>, <<"set">>, <<"set">>, Missing)
  /\ client.error.code = QB_INVALID_CONFIG

\* C13: an operation that finds the token store empty makes no HTTP call to
\* the resource API, does not contact the token endpoint, neither writes nor
\* clears the store, and ends with a tagged QB_UNAUTHORIZED error.  (The store
\* is emptied only by a clear, so an empty store and no clear by this call
\* mean the store was empty when the call began.)
C13_NoTokensUnauthorized ==
  \A t \in Tasks :
    LET c == call[t] IN
    (c.pc # "idle" /\ store = <<>> /\ c.clears = 0) =>
      /\ c.resps = <<>>
      /\ c.refreshes = <<>>
      /\ c.writes = 0
      /\ c.pc \in {"rate", "tokens", "held", "done"}
      /\ Done(c) =>
           /\ c.outcome = "error" /\ c.endedBy = "tokens"
           /\ IsTagged(c.error) /\ c.error.code = QB_UNAUTHORIZED

\* the second call in a row refused for want of credentials: a request(),
\* with no HTTP attempt made by either
C13_Witness ==
  \E t \in Tasks :
    LET c == call[t] IN
    /\ c.op = "request" /\ Done(c) /\ store = <<>> /\ c.clears = 0
    /\ c.error = NoTokensError
    /\ calls = 2 /\ attempts = 0

\* the answer that ended the call was a non-2xx response
EndedByStatus(c) ==
  /\ Done(c) /\ c.endedBy = "response" /\ c.outcome = "error"
  /\ Len(c.resps) > 0
  /\ c.resps[Len(c.resps)].status \notin 200..299

\* C14: a non-2xx response that is not retried reaches the caller as a
\* tagged error whose status is the HTTP status the server sent, whatever
\* that status is, and whose details are the decoded error body, or the
\* empty object when the body cannot be decoded.
C14_StatusPreserved ==
  \A t \in Tasks :
    LET c == call[t] IN
    EndedByStatus(c) =>
      /\ IsTagged(c.error)
      /\ c.error.status = c.resps[Len(c.resps)].status
      /\ c.error.details =
           DecodeErrorBody(c.resps[Len(c.resps)].body).payload

Count(seq, x) == Cardinality({i \in 1..Len(seq) : seq[i] = x})

\* C15 as stated: a call has appended as many timestamps to the rate window
\* as it has made HTTP attempts, none when it ends without an attempt.
C15_EntriesEqualAttempts ==
  \A t \in Tasks :
    LET c == call[t] IN
    Done(c) => Count(c.trail, "rate") = Len(c.resps)

\* C15, amended: every HTTP attempt, retries included, is preceded by exactly
\* one timestamp appended for it.  query() and queryAll() append none when
\* getting credentials fails; request() checks the rate before it gets
\* credentials, so an attempt of request() that fails to get credentials has
\* appended one timestamp without an HTTP attempt being made; getCompanyInfo()
\* gets credentials once before it calls request() and appends none when
\* that fails.
C15_EntryBeforeEachAttempt ==
  /\ Len(recorded) >= attempts
  /\ \A t \in Tasks :
       LET c == call[t]
           entries == Count(c.trail, "rate")
       IN /\ Count(c.trail, "fetch") = Len(c.resps)
          /\ entries \in {Len(c.resps), Len(c.resps) + 1}
          /\ \A i \in 1..Len(c.trail) :
               c.trail[i] = "fetch" =>
                 Count(SubSeq(c.trail, 1, i), "rate") = Count(SubSeq(c.trail, 1, i), "fetch")
          /\ Done(c) =>
               IF c.op \in RequestOps /\ c.endedBy = "tokens" /\ c.trail # <<>>
                 THEN entries = Len(c.resps) + 1
                 ELSE entries = Len(c.resps)

\* a request() retried after a 429 whose second try for credentials failed:
\* two timestamps, one HTTP attempt
C15_Witness ==
  \E t \in Tasks :
    LET c == call[t] IN
    /\ c.op = "request" /\ Done(c) /\ c.endedBy = "tokens"
    /\ Len(c.resps) = 1 /\ c.resps[1].retried
    /\ Count(c.trail, "rate") = 2

\* the token endpoint has answered a refresh of task t in this step
RefreshAnsweredNow(t) == Len(call'[t].refreshes) = Len(call[t].refreshes) + 1
LastRefresh(c) == c.refreshes[Len(c.refreshes)]
\* the store has answered the storeTokens() or clearTokens() of task t in
\* this step, and the call of task t that the answer of the token endpoint
\* has left waiting for
StoreAnsweredNow(t) ==
  call[t].pc \in {"store", "restore", "clear"} /\ call'[t].pc # call[t].pc
Storing(c) == IF c.pc \in {"store", "restore"} THEN 1 ELSE 0
Clearing(c) == IF c.pc = "clear" THEN 1 ELSE 0

\* C16: the store is written once for every refresh that succeeded and
\* cleared once for every refresh of getValidTokens that failed with status
\* 401, and for nothing else: the store changes only in the step that
\* settles the storeTokens() or clearTokens() the call went into when the
\* token endpoint answered its refresh, to the credentials just issued when
\* the refresh succeeded and to nothing when it failed; a call that has made
\* no refresh has neither written nor cleared.
C16_StoreWrittenOnRefreshOnly ==
  /\ [](\A t \in Tasks :
          LET c == call[t] IN
          /\ c.writes + Storing(c) =
               Cardinality({i \in 1..Len(c.refreshes) : c.refreshes[i].kind = "ok"})
          /\ c.clears + Clearing(c) =
               Cardinality({i \in 1..Len(c.refreshes) :
                              /\ ~c.refreshes[i].forced
                              /\ c.refreshes[i].kind = "http"
                              /\ c.refreshes[i].status = 401})
          /\ c.clears + Clearing(c) <= 1
          /\ (Storing(c) = 1 \/ Clearing(c) = 1) =>
               /\ c.refreshes # <<>>
               /\ (LastRefresh(c).kind = "ok") = (Storing(c) = 1))
  /\ [][/\ store' # store =>
            \E t \in Tasks :
              /\ StoreAnsweredNow(t)
              /\ issuedTokens' = issuedTokens
              /\ IF LastRefresh(call[t]).kind = "ok"
                   THEN /\ store' # <<>>
                        /\ store'[1].access_token = issuedTokens
                        /\ call'[t].writes = call[t].writes + 1
                        /\ call'[t].clears = call[t].clears
                   ELSE /\ store' = <<>>
                        /\ call'[t].clears = call[t].clears + 1
                        /\ call'[t].writes = call[t].writes
        /\ \A t \in Tasks :
             RefreshAnsweredNow(t) =>
               /\ LastRefresh(call'[t]).kind = "ok" =>
                    issuedTokens' = issuedTokens + 1 /\ Storing(call'[t]) = 1
               /\ LastRefresh(call'[t]).kind # "ok" => issuedTokens' = issuedTokens
        /\ \A t \in Tasks :
             (call[t].pc # "idle" /\ call'[t].pc # "idle" /\ ~StoreAnsweredNow(t)) =>
               /\ call'[t].writes = call[t].writes
               /\ call'[t].clears = call[t].clears
               /\ store' = store]_vars

\* a request() that refreshed an expiring token, was answered 401, refreshed
\* again and was answered: two refreshes, two writes, no clear
C16_Witness ==
  \E t \in Tasks :
    LET c == call[t] IN
    /\ c.op = "request" /\ Done(c) /\ c.outcome = "ok"
    /\ Len(c.refreshes) = 2 /\ c.writes = 2 /\ c.clears = 0
    /\ store # <<>> /\ store[1].access_token = 2

\* C17: every failure that reaches the caller of request(), query() or
\* queryAll() is a tagged QuickBooksError.
C17_AllFailuresTagged ==
  \A t \in Tasks :
    (Done(call[t]) /\ call[t].outcome = "error") =>
      IsTagged(call[t].error) /\ call[t].error.code # NoCode

\* a transport-level failure of fetch, as the runtime throws it
IsTransportFailure(e) == e.kind = "TypeError" /\ Includes(e.message, MsgFetch)
MatchesTokenMessage(e) ==
  Includes(e.message, MsgTokenExpired) \/ Includes(e.message, MsgInvalidToken)

\* C18: handleQuickBooksError returns an already tagged error unchanged and
\* maps any other failure to one tagged error: a transport failure of fetch
\* to QB_NETWORK_ERROR; otherwise an object with status 401 or 403 to
\* QB_UNAUTHORIZED and with status 429 to QB_RATE_LIMIT; otherwise an object
\* whose message contains "token expired" or "invalid_token" to
\* QB_TOKEN_EXPIRED; and everything else, a non-object included, to
\* QB_API_ERROR.
C18_ErrorMapping ==
  probe.applied =>
    LET r == probe.raw
        n == probe.normalized
    IN IF IsTagged(r) THEN n = r
       ELSE /\ IsTagged(n)
            /\ n.details = r.details
            /\ n.code =
                 (IF IsTransportFailure(r) THEN QB_NETWORK_ERROR
                  ELSE IF r.kind # "string" /\ r.status \in {401, 403} THEN QB_UNAUTHORIZED
                  ELSE IF r.kind # "string" /\ r.status = 429 THEN QB_RATE_LIMIT
                  ELSE IF r.kind # "string" /\ MatchesTokenMessage(r) THEN QB_TOKEN_EXPIRED
                  ELSE QB_API_ERROR)

\* a plain object with status 403 and a token message: the status decides
C18_Witness ==
  /\ probe.applied
  /\ probe.raw.kind = "object" /\ probe.raw.status = 403
  /\ probe.raw.message = MsgTokenExpired
  /\ probe.normalized.code = QB_UNAUTHORIZED

\* C19: every HTTP attempt, of request() and of query()/queryAll() alike,
\* comes right after the credentials were obtained for it, and those right
\* after the rate check that recorded its timestamp.
C19_RateThenTokensThenFetch ==
  \A t \in Tasks :
    LET c == call[t] IN
    \A i \in 1..Len(c.trail) :
      c.trail[i] = "fetch" =>
        /\ i >= 3
        /\ c.trail[i - 1] = "tokens"
        /\ c.trail[i - 2] = "rate"

\* C20: once the token endpoint has answered a refresh with 401, no refresh
\* is sent to it again with that refresh token.
C20_DeadCredentialsNotReused ==
  [][\A t \in Tasks :
       RefreshAnsweredNow(t) => call[t].tokens[1].refresh_token \notin rejected]_vars

\* how many recorded timestamps lie in the 60 000 ms that end with the
\* latest one
TrailingCount(rec) ==
  IF rec = <<>> THEN 0
  ELSE Cardinality({j \in 1..Len(rec) : rec[Len(rec)] - rec[j] < RATE_LIMIT_WINDOW_MS})

\* task t leaves the wait of its rate check in this step
ResumedNow(t) == call[t].pc = "waiting" /\ call'[t].pc # "waiting"

\* C21: with calls in flight side by side the window can hold more than 500
\* timestamps within 60 000 ms, and only in this way: the step that takes the
\* count above 500 is the resumption of a call that was suspended in its
\* rate check and records without looking at the window again, other calls
\* having recorded since it looked.  While the calls are made one at a time
\* the count stays at 500 or below.
C21_OvershootOnResumption ==
  /\ [](calls <= RATE_LIMIT => TrailingCount(recorded) <= RATE_LIMIT)
  /\ [][(TrailingCount(recorded) <= RATE_LIMIT /\ TrailingCount(recorded') > RATE_LIMIT) =>
          \E t \in Tasks :
            /\ ResumedNow(t)
            /\ Len(recorded') = Len(recorded) + 1
            /\ \E j \in 1..Len(recorded) :
                 recorded[j] > call[t].waits[Len(call[t].waits)].at]_vars

\* more than 500 timestamps within 60 000 ms, the latest recorded by a call
\* that had been suspended
C21_Witness ==
  /\ TrailingCount(recorded) > RATE_LIMIT
  /\ \E t \in Tasks : call[t].waits # <<>> /\ call[t].pc # "waiting"

\* how many of the timestamps rec lie in the 60 000 ms that end at x
EarlierWithin(rec, x) ==
  Cardinality({j \in 1..Len(rec) : x - rec[j] < RATE_LIMIT_WINDOW_MS})

LastWait(c) == c.waits[Len(c.waits)]

\* C22: a call whose rate check found the window above the ceiling (more
\* than 500 entries after pruning) is not released, its timestamp not
\* recorded, until fewer than 500 earlier timestamps remain within the
\* 60 000 ms before it.
C22_ExcessCorrectedOnNextCheck ==
  [][\A t \in Tasks :
       (ResumedNow(t) /\ LastWait(call[t]).length > RATE_LIMIT) =>
         EarlierWithin(recorded, clock') < RATE_LIMIT]_vars

NonDecreasing(ts) == \A i \in 1..(Len(ts) - 1) : ts[i] <= ts[i + 1]

\* ts2 is ts1 with one element appended
Pushed(ts1, ts2) == Len(ts2) = Len(ts1) + 1 /\ SubSeq(ts2, 1, Len(ts1)) = ts1

\* task t evaluates its rate check in this step
CheckedNow(t) == call[t].pc = "rate" /\ call'[t].pc # "rate"

\* C23: the stored timestamps are in non-decreasing order; when a rate check
\* is evaluated every timestamp it leaves stored is less than 60 000 ms old;
\* the sequence changes only in a step of a rate check, and it loses
\* elements only in the evaluation of one.
C23_RateWindowInvariant ==
  /\ [](NonDecreasing(requestTimestamps))
  /\ [][/\ \A t \in Tasks :
             CheckedNow(t) =>
               \A i \in 1..Len(requestTimestamps') :
                 /\ clock - requestTimestamps'[i] < RATE_LIMIT_WINDOW_MS
                 /\ clock - requestTimestamps'[i] >= 0
        /\ requestTimestamps' # requestTimestamps =>
             \E t \in Tasks : CheckedNow(t) \/ ResumedNow(t)
        /\ (requestTimestamps' # requestTimestamps
              /\ ~Pushed(requestTimestamps, requestTimestamps')) =>
             \E t \in Tasks : CheckedNow(t)]_vars

\* a rate check has pruned: fewer timestamps stored than were ever recorded,
\* and a call is suspended on a full window
C23_Witness ==
  /\ Len(requestTimestamps) < Len(recorded)
  /\ Len(requestTimestamps) >= RATE_LIMIT
  /\ \E t \in Tasks : call[t].pc = "waiting"

\* C24: whatever pageSize queryAll is given, the MAXRESULTS it sends is the
\* smaller of pageSize and 1000; the start positions go up by that capped
\* value; and it stops exactly when a page is shorter than the capped value.
C24_PageSizeCapped ==
  \A t \in Tasks :
    LET c == call[t]
        cap == IF c.pageSize < 1000 THEN c.pageSize ELSE 1000
    IN c.op = "queryAll" =>
         /\ c.maxResults = cap
         /\ \A i \in 1..Len(c.positions) : c.positions[i] = 1 + (i - 1) * cap
         /\ c.startPosition = 1 + (Len(c.positions) - (IF Done(c) THEN 1 ELSE 0)) * cap
         /\ (Done(c) /\ c.outcome = "ok") => Len(c.pageResults) < cap
         /\ (~Done(c) /\ Len(c.positions) >= 1) => Len(c.pageResults) >= cap

\* 2000 records asked for 2000 at a time: fetched in pages of 1000 from
\* positions 1, 1001 and 2001
C24_Witness ==
  \E t \in Tasks :
    LET c == call[t] IN
    /\ c.op = "queryAll" /\ Done(c) /\ c.outcome = "ok"
    /\ c.pageSize = 2000 /\ dataset = 2000
    /\ c.positions = <<1, 1001, 2001>>
    /\ Len(c.allResults) = 2000

\* C25: every credential record in the store carries a realm_id; a record
\* the client writes has the realm_id of the record it replaces, which is
\* the one it was refreshed from, and an expires_at of the time of the
\* refresh, in seconds, plus the provider's expires_in.
C25_RealmKept ==
  /\ [](store # <<>> => store[1].realm_id \in {Realm, OtherRealm})
  /\ [][(store' # store /\ store' # <<>>) =>
          /\ store # <<>>
          /\ store'[1].realm_id = store[1].realm_id
          /\ store'[1].expires_at = clock \div 1000 + ExpiresIn
          /\ \E t \in Tasks :
               /\ StoreAnsweredNow(t) /\ call[t].tokens = store
               /\ store'[1].expires_at = LastRefresh(call[t]).now + ExpiresIn]_vars

\* the credentials of the second realm, refreshed before use and again on a 401
C25_Witness ==
  /\ store # <<>>
  /\ store[1].realm_id = OtherRealm
  /\ store[1].access_token = 2
  /\ \E t \in Tasks : Len(call[t].refreshes) = 2 /\ call[t].refreshes[2].forced

\* C26: with a provider that issues tokens for longer than the 300 s buffer
\* plus the longest wait of a rate check (ExpiresIn is 3600 s), the bearer
\* token of every call to the resource API expires strictly after the time
\* the call is issued, also when the credentials were obtained before a
\* rate check that then suspended the call.
C26_BearerNotExpired ==
  \A t \in Tasks :
    \A i \in 1..Len(call[t].resps) :
      call[t].resps[i].bearer.expires_at * 1000 > call[t].resps[i].at

\* a query() that got its credentials, was then suspended by the rate
\* check, and sent them 58 s later
C26_Witness ==
  \E t \in Tasks :
    LET c == call[t] IN
    /\ c.op = "query" /\ Len(c.resps) = 1 /\ c.waits # <<>>
    /\ c.resps[1].at - LastWait(c).at >= 58000
    /\ c.resps[1].bearer.access_token = 1

\* ------------------------------------------------------------ request() to its end
\* request() alone, against any mix of answers of the resource API and of
\* the token endpoint. Every await of a call in flight settles: a fetch is
\* answered or fails, a timer fires, the token store answers.
StartRequest(t) == Start(t, "request", MAX_PAGE_SIZE)

requestStep(t) ==
  \/ checkRateLimit(t)
  \/ getTokens(t)
  \/ getValidTokens(t)
  \/ \E ans \in RefreshAnswers : refreshAnswered(t, ans)
  \/ storeTokens(t)
  \/ clearTokens(t)
  \/ \E resp \in ResponsesAt(call[t].retryCount) : requestAnswered(t, resp)
  \/ backoffElapsed(t)
  \/ refreshOn401(t)
  \/ \E ans \in RefreshAnswers : forcedRefreshAnswered(t, ans)

NextRequest ==
  \/ \E t \in Callers : StartRequest(t)
  \/ \E t \in Callers : Return(t)
  \/ \E t \in Callers : requestStep(t)
  \/ Tick

SpecRequest ==
  Init /\ [][NextRequest]_vars /\ \A t \in Callers : WF_vars(requestStep(t))

InFlight(c) == c.pc \notin {"idle", "done"}
ForcedRefreshes(c) == Cardinality({i \in 1..Len(c.refreshes) : c.refreshes[i].forced})

\* C27: whatever the resource API and the token endpoint answer, one
\* request() makes at most MAX_RETRIES + 1 = 4 attempts and at most one
\* forced refresh, its i-th attempt runs with retry counter i - 1, the
\* counter changes only by one and only when the call is issued again, and
\* the call ends (with a result or an error).
C27_RequestBounded ==
  /\ [](\A t \in Tasks :
          LET c == call[t] IN
          /\ Len(c.resps) <= MAX_RETRIES + 1
          /\ ForcedRefreshes(c) <= 1
          /\ c.retryCount <= MAX_RETRIES
          /\ \A i \in 1..Len(c.resps) : c.resps[i].retryCount = i - 1)
  /\ [][\A t \in Tasks :
          (InFlight(call[t]) /\ call'[t].retryCount # call[t].retryCount) =>
             /\ call'[t].retryCount = call[t].retryCount + 1
             /\ call[t].pc \in {"backoff", "restore"}
             /\ call'[t].pc = "rate"
             /\ Len(call'[t].resps) = Len(call[t].resps)]_vars
  /\ \A t \in Tasks : InFlight(call[t]) ~> Done(call[t])

\* a request() that ended after four attempts, one of them answered 401 and
\* followed by the forced refresh
C27_Witness ==
  \E t \in Tasks :
    LET c == call[t] IN
    /\ c.op = "request" /\ Done(c)
    /\ Len(c.resps) = MAX_RETRIES + 1
    /\ ForcedRefreshes(c) = 1
    /\ c.retryCount = MAX_RETRIES

\* the refresh answered in this step failed, and not with status 401
RefreshFailedNot401(t) ==
  /\ RefreshAnsweredNow(t)
  /\ LastRefresh(call'[t]).kind # "ok"
  /\ ~(LastRefresh(call'[t]).kind = "http" /\ LastRefresh(call'[t]).status = 401)

\* C28: a refresh that fails with a status other than 401 (400, 403, 500) or
\* with a transport failure leaves the store as it was, neither written nor
\* cleared, and the call ends with that failure; and credentials that are
\* within the buffer stay so while the store is untouched, so the next call
\* that looks at them starts a refresh of the same record.
C28_FailedRefreshLeavesStore ==
  [][/\ \A t \in Tasks :
          RefreshFailedNot401(t) =>
            LET c == call'[t]
                r == LastRefresh(c)
                raw == IF r.kind = "transport" THEN FetchTypeError
                       ELSE RefreshFailed(r.status, DecodeErrorBody(r.body))
            IN /\ store' = store /\ store # <<>>
               /\ c.writes = call[t].writes /\ c.clears = call[t].clears
               /\ issuedTokens' = issuedTokens
               /\ Done(c) /\ c.outcome = "error"
               /\ c.error = IF r.forced THEN handleQuickBooksError(raw) ELSE raw
               /\ r.status \in {400, 403, 500, NoStatus}
     /\ (store' = store /\ store # <<>> /\ isTokenExpired(store[1].expires_at, clock)) =>
            isTokenExpired(store'[1].expires_at, clock')
     /\ \A t \in Tasks :
          (call[t].pc = "held" /\ call'[t].pc # "held" /\ store # <<>>
             /\ isTokenExpired(store[1].expires_at, clock)) =>
            call'[t].pc = "refresh" /\ call'[t].tokens = store]_vars

\* the first call ended on a failed refresh and the second call, after a
\* pause, has refreshed the very same credentials and was answered 500
C28_Witness ==
  \E t \in Tasks :
    LET c == call[t] IN
    /\ calls = 2 /\ attempts = 0 /\ ticks = 1 /\ issuedTokens = 0 /\ rejected = {}
    /\ c.pc = "done" /\ Len(c.refreshes) = 1
    /\ c.refreshes[1].status = 500
    /\ c.error = RefreshFailed(500, DecodeErrorBody(GrantBody))
    /\ store # <<>> /\ c.tokens = store /\ store[1].access_token = 0

\* ------------------------------------------------------------ calls side by side
\* two callers use one client at the same time; the stored credentials are
\* within the buffer, the window is far from full
RaceResponses ==
  {HttpResponse(200, NoHeader, QueryBody), HttpResponse(401, NoHeader, FaultBody)}
    \cup {HttpResponse(429, h, FaultBody) : h \in {NoHeader, <<"2">>}}
\* a 429 comes as the first answer only
RaceResponsesAt(retryCount) ==
  IF retryCount = 0 THEN RaceResponses ELSE {r \in RaceResponses : r.status # 429}

InitRace ==
  /\ clock = StartClockMs
  /\ requestTimestamps = <<>>
  /\ store = <<Tokens(0, 0, Realm, NowSeconds(StartClockMs) + TOKEN_BUFFER_SECONDS - 1)>>
  /\ issuedTokens = 0
  /\ dataset = MaxRecords
  /\ call = [t \in Tasks |-> IdleCall]
  /\ recorded = <<>>
  /\ calls = 0
  /\ attempts = 0
  /\ ticks = 0
  /\ client = ReadyClient
  /\ probe = NoProbe
  /\ rejected = {}

StartBesides(t, op) ==
  /\ calls < MaxCalls
  /\ Enter(t, op, MAX_PAGE_SIZE)

NextRace ==
  \/ \E t \in Tasks, op \in {"request", "query", "getCompanyInfo"} : StartBesides(t, op)
  \/ \E t \in Tasks : Return(t)
  \/ \E t \in Tasks : checkRateLimit(t)
  \/ \E t \in Tasks : getTokens(t)
  \/ \E t \in Tasks : getValidTokens(t)
  \/ \E t \in Tasks, ans \in RefreshAnswers : refreshAnswered(t, ans)
  \/ \E t \in Tasks : storeTokens(t)
  \/ \E t \in Tasks : clearTokens(t)
  \/ \E t \in Tasks : \E resp \in RaceResponsesAt(call[t].retryCount) :
       requestAnswered(t, resp)
  \/ \E t \in Tasks : backoffElapsed(t)
  \/ \E t \in Tasks : refreshOn401(t)
  \/ \E t \in Tasks, ans \in RefreshAnswers : forcedRefreshAnswered(t, ans)
  \/ \E t \in Tasks, resp \in RaceResponses : queryAnswered(t, resp)

SpecRace == InitRace /\ [][NextRace]_vars

\* C29: with calls side by side, a failed refresh clears the store only when
\* the store still holds the credentials that refresh was made with; what
\* another call's successful refresh wrote in the meantime is not cleared.
C29_ClearsOwnCredentialsOnly ==
  [][\A t \in Tasks :
       (StoreAnsweredNow(t) /\ store # <<>> /\ store' = <<>>) =>
         call[t].tokens = store]_vars

\* C30: in every iteration of queryAll() that goes on to another page the
\* start position has strictly increased, for every page size given.
C30_PositionAdvances ==
  [][\A t \in Tasks :
       (/\ call[t].op = "queryAll"
        /\ Len(call'[t].positions) = Len(call[t].positions) + 1
        /\ ~Done(call'[t])) =>
         call'[t].startPosition > call[t].startPosition]_vars

\* ------------------------------------------------------------ suspended rate checks
\* the burst again, with the timer of every suspended rate check firing
SpecWaits ==
  InitBurst /\ [][NextBurst]_vars /\ \A t \in Tasks : WF_vars(checkRateLimitResumed(t))

Suspended(c) == c.pc = "waiting"

\* C31: a rate check suspends its caller at most once; the wait is
\* 60 000 - (now - oldest) + 100 with 0 <= now - oldest < 60 000, so more
\* than 100 ms and at most 60 100 ms; the caller is resumed, the entry that
\* was oldest at check time is then at least 60 000 ms old, and the call
\* goes on to its next stage without a second wait. This holds with several
\* calls suspended side by side.
C31_OneBoundedWait ==
  /\ [](\A t \in Tasks :
          LET c == call[t] IN
          /\ Len(c.waits) <= 1
          /\ Suspended(c) => Len(c.waits) = 1
          /\ \A i \in 1..Len(c.waits) :
               LET w == c.waits[i] IN
               /\ w.length >= RATE_LIMIT
               /\ 0 <= w.at - w.oldest /\ w.at - w.oldest < RATE_LIMIT_WINDOW_MS
               /\ w.waitTime = RATE_LIMIT_WINDOW_MS - (w.at - w.oldest) + RATE_WAIT_BUFFER_MS
               /\ w.waitTime > RATE_WAIT_BUFFER_MS
               /\ w.waitTime <= RATE_LIMIT_WINDOW_MS + RATE_WAIT_BUFFER_MS
               /\ c.wakeAt = w.at + w.waitTime)
  /\ [][\A t \in Tasks :
          /\ ResumedNow(t) =>
               LET w == LastWait(call[t]) IN
               /\ clock' >= w.at + w.waitTime
               /\ clock' - w.oldest >= RATE_LIMIT_WINDOW_MS
               /\ call'[t].pc = AfterRate(call[t].op)
               /\ call'[t].waits = call[t].waits
               /\ recorded' = Append(recorded, clock')
          /\ Suspended(call'[t]) /\ ~Suspended(call[t]) => call[t].waits = <<>>]_vars
  /\ \A t \in Tasks : Suspended(call[t]) ~> ~Suspended(call[t])

\* both callers were suspended side by side (each before the other was
\* due) and both have been resumed, after the longest wait there is
C31_Witness ==
  /\ \A t \in Tasks :
       /\ Len(call[t].waits) = 1
       /\ call[t].pc \notin {"idle", "rate", "waiting"}
       /\ clock >= call[t].wakeAt
  /\ \E t \in Tasks : call[t].waits[1].waitTime = RATE_LIMIT_WINDOW_MS + RATE_WAIT_BUFFER_MS
  /\ \A t, u \in Tasks : call[u].waits[1].at < call[t].wakeAt

====
